---- MODULE Spec2Model ----
\* Login throttle (authentication-controller.js, login) and user query engine
\* (users-service.js, getUsers) of the m-banking backend.
EXTENDS Integers, Sequences, FiniteSets, TLC

\* ------------------------------------------------------------------ bounds
MaxProcs == 2
MaxTicks == 2
MaxUsers == 3
MaxPage == 3
MaxSize == 2
MaxGreek == 2
MaxWriters == 2

\* ------------------------------------------------------- program constants
AttemptLimit == 5
WindowSeconds == 1800
MsPerSecond == 1000

\* ---------------------------------------------------------------- helpers
Max(a, b) == IF a >= b THEN a ELSE b
Min(a, b) == IF a <= b THEN a ELSE b

\* ========================================================================
\* Login throttle
\* ========================================================================
Procs == 1..MaxProcs
\* loginAttempts is keyed by email; the requests here are all for one identity.
Emails == {"ann"}
Passwords == {"good", "bad"}
None == [count |-> 0, timestamp |-> -1]
Deltas == {500, 1799500}
NoBody == [email |-> "", password |-> ""]
\* What a request answered: kind is "ok" (200), "wrong" (403 wrong email or
\* password), "locked" (403 too many attempts) or "typeerror" (the exception
\* caught at line 66). A locked answer carries remainingTime and the
\* milliseconds between the record's timestamp and the check.
Answer(kind, email) ==
  [kind |-> kind, email |-> email, remaining |-> 0, elapsed |-> 0]
NoOutcome == Answer("none", "")

VARIABLES
  loginAttempts,  \* email -> record, or None for an absent key
  now,            \* Date.now() in milliseconds
  ticks,          \* number of clock advances so far
  pc,             \* where each request is
  body,           \* request.body of each request
  attempts,       \* the const `attempts` each request captured
  outcome,        \* what each request handed to response / next(error)
  recorded        \* per email: failure writes since the record was created,
                  \* counted up to AttemptLimit + 1

loginVars == <<loginAttempts, now, ticks, pc, body, attempts, outcome, recorded>>

VARIABLES
  users,          \* the documents User.find({}) returns, in store order
  query,          \* request.query of the last listing request
  response        \* what the listing request answered

queryVars == <<users, query, response>>

VARIABLES
  wpc,            \* where each request that writes users is
  wreq,           \* what the request carries past its awaits
  wout,           \* what each request answered
  nextId          \* the number the store puts into the next _id

writeVars == <<wpc, wreq, wout, nextId>>
vars == <<loginVars, queryVars, writeVars>>

\* authentication-service.checkLoginCredentials: truthy iff the password is
\* the identity's password.
checkLoginCredentials(email, password) == password = "good"

\* Math.floor(x / 1000) for a non-negative millisecond count.
FloorSeconds(ms) == ms \div MsPerSecond

calculateRemainingTimeNoClamp(lastAttemptTime, t) ==
  WindowSeconds - FloorSeconds(t - lastAttemptTime)
calculateRemainingTime(lastAttemptTime, t) ==
  Max(0, WindowSeconds - FloorSeconds(t - lastAttemptTime))

\* loginAttempts is a plain object: a key that names a property of
\* Object.prototype is never undefined, it yields the inherited object. For
\* such a key loginAttempts[key] holds here the count and timestamp that lines
\* 53-54 wrote onto that object (None while nothing was written); the object
\* of the key __proto__ is Object.prototype itself. A count or timestamp that
\* is undefined is written NoValue, a count that is NaN is written NotANumber.
NoValue == -1
NotANumber == -2
PrototypeKeys ==
  {"constructor", "__proto__", "toString", "toLocaleString", "valueOf",
   "hasOwnProperty", "isPrototypeOf", "propertyIsEnumerable",
   "__defineGetter__", "__defineSetter__", "__lookupGetter__", "__lookupSetter__"}

\* The own property loginAttempts has under a key, None when it has none.
Own(la, email) == IF email \in DOMAIN la THEN la[email] ELSE None

\* loginAttempts[email] = record: the key becomes an own property if it is none.
Put(la, email, record) ==
  IF email \in DOMAIN la THEN [la EXCEPT ![email] = record]
  ELSE [k \in DOMAIN la \cup {email} |-> IF k = email THEN record ELSE la[k]]

\* The count and timestamp every object inherits: those a failed check for
\* the key __proto__ wrote onto Object.prototype, undefined before that.
Inherited(la) ==
  IF Own(la, "__proto__") = None THEN [count |-> NoValue, timestamp |-> NoValue]
  ELSE Own(la, "__proto__")

\* The keys loginAttempts inherits: count and timestamp join them once they
\* are written onto Object.prototype.
InheritedKeys(la) ==
  PrototypeKeys
    \cup (IF Inherited(la).count = NoValue THEN {} ELSE {"count"})
    \cup (IF Inherited(la).timestamp = NoValue THEN {} ELSE {"timestamp"})

\* loginAttempts[email] is the number inherited under the key count or
\* timestamp: lines 53-54 assign to a property of a number, which does nothing.
IsPrimitive(la, email) ==
  Own(la, email) = None /\ email \notin PrototypeKeys /\ email \in InheritedKeys(la)

\* loginAttempts[email], lines 28 and 35: None stands for undefined, anything
\* else is given by the count and timestamp read from it, its own or the
\* inherited ones.
Lookup(la, email) ==
  IF Own(la, email) # None THEN Own(la, email)
  ELSE IF email \in InheritedKeys(la) THEN Inherited(la)
  ELSE None

\* line 38: attempts > 5, false for undefined and for NaN
ExceedsLimitOffByOne(n) == n >= AttemptLimit
ExceedsLimitLate(n) == n > AttemptLimit + 1
ExceedsLimit(n) == n > AttemptLimit

\* lines 29-32: the record a first attempt creates
InitRecord(t) == [count |-> 1, timestamp |-> t]

\* lines 53-54: the count and timestamp a failed credential check writes;
\* undefined + 1 and NaN + 1 are NaN.
FailureRecord(n, t) ==
  [count |-> IF n < 0 THEN NotANumber ELSE n + 1, timestamp |-> t]

\* lines 53-54 on the record or the inherited object under the key.
AfterFailure(la, email, n, t) ==
  IF IsPrimitive(la, email) THEN la ELSE Put(la, email, FailureRecord(n, t))

\* line 63: delete loginAttempts[email] removes an own property only.
AfterSuccessKeepsRecord(la, email) == [la EXCEPT ![email] = [count |-> 1, timestamp |-> @.timestamp]]
AfterSuccess(la, email) ==
  IF email \in PrototypeKeys \/ email \notin DOMAIN la THEN la
  ELSE [la EXCEPT ![email] = None]

InitLogin ==
  /\ loginAttempts = [e \in Emails |-> None]
  /\ now = 0
  /\ ticks = 0
  /\ pc = [p \in Procs |-> "idle"]
  /\ body = [p \in Procs |-> NoBody]
  /\ attempts = [p \in Procs |-> 0]
  /\ outcome = [p \in Procs |-> NoOutcome]
  /\ recorded = [e \in Emails |-> 0]

\* login, lines 28-35: the record the request works with, created at its first
\* attempt and otherwise the one at hand, however old.
CurrentRecordExpiring(la, email, t) ==
  IF \/ Lookup(la, email) = None
     \/ (ExceedsLimit(Lookup(la, email).count)
           /\ t - Lookup(la, email).timestamp >= WindowSeconds * MsPerSecond)
  THEN InitRecord(t)
  ELSE Lookup(la, email)
CurrentRecord(la, email, t) ==
  IF Lookup(la, email) = None THEN InitRecord(t) ELSE Lookup(la, email)

\* login, lines 17-44: a new request arrives on a free slot and runs up to the
\* await of the credential check, or is rejected at line 40.
LoginStart(p, email, password) ==
  /\ pc[p] = "idle"
  /\ LET created == Lookup(loginAttempts, email) = None
         rec == CurrentRecord(loginAttempts, email, now)
     IN /\ loginAttempts' = IF rec = Lookup(loginAttempts, email) THEN loginAttempts
                             ELSE Put(loginAttempts, email, rec)
        /\ recorded' = IF created THEN [recorded EXCEPT ![email] = 0] ELSE recorded
        /\ IF ExceedsLimit(rec.count)
           THEN /\ outcome' = [outcome EXCEPT ![p] =
                     [kind |-> "locked", email |-> email,
                      remaining |-> calculateRemainingTime(rec.timestamp, now),
                      elapsed |-> now - rec.timestamp]]
                /\ UNCHANGED <<pc, body, attempts>>
           ELSE /\ pc' = [pc EXCEPT ![p] = "checking"]
                /\ body' = [body EXCEPT ![p] = [email |-> email, password |-> password]]
                /\ attempts' = [attempts EXCEPT ![p] = rec.count]
                /\ outcome' = [outcome EXCEPT ![p] = NoOutcome]
  /\ UNCHANGED <<now, ticks>>
  /\ UNCHANGED <<queryVars, writeVars>>

\* login, lines 47-68: the continuation after the credential check. The
\* request ends here and its slot is free again; outcome keeps its answer.
LoginResume(p) ==
  /\ pc[p] = "checking"
  /\ LET email == body[p].email IN
     IF ~checkLoginCredentials(email, body[p].password)
     THEN IF Lookup(loginAttempts, email) = None
          THEN \* loginAttempts[email] is undefined: TypeError, caught at line 66
               /\ outcome' = [outcome EXCEPT ![p] = Answer("typeerror", email)]
               /\ UNCHANGED <<loginAttempts, recorded>>
          ELSE /\ loginAttempts' = AfterFailure(loginAttempts, email, attempts[p], now)
               /\ recorded' = IF IsPrimitive(loginAttempts, email) THEN recorded
                               ELSE [recorded EXCEPT ![email] = Min(@ + 1, AttemptLimit + 1)]
               /\ outcome' = [outcome EXCEPT ![p] = Answer("wrong", email)]
     ELSE /\ loginAttempts' = AfterSuccess(loginAttempts, email)
          /\ recorded' = [recorded EXCEPT ![email] = 0]
          /\ outcome' = [outcome EXCEPT ![p] = Answer("ok", email)]
  /\ pc' = [pc EXCEPT ![p] = "idle"]
  /\ body' = [body EXCEPT ![p] = NoBody]
  /\ attempts' = [attempts EXCEPT ![p] = 0]
  /\ UNCHANGED <<now, ticks>>
  /\ UNCHANGED <<queryVars, writeVars>>

\* Wall-clock time passes.
Tick(d) ==
  /\ ticks < MaxTicks
  /\ now' = now + d
  /\ ticks' = ticks + 1
  /\ UNCHANGED <<loginAttempts, pc, body, attempts, outcome, recorded>>
  /\ UNCHANGED <<queryVars, writeVars>>

NextLogin ==
  \/ \E p \in Procs, e \in Emails, pw \in Passwords : LoginStart(p, e, pw)
  \/ \E p \in Procs : LoginResume(p)
  \/ \E d \in Deltas : Tick(d)

\* ========================================================================
\* User query engine
\* ========================================================================
\* A JavaScript string is the sequence of its UTF-16 code units.
\* JavaScript values that are not strings: a number, NaN or undefined.
Num(n) == [t |-> "number", v |-> n]
NaN == [t |-> "nan", v |-> 0]
Undefined == [t |-> "undefined", v |-> 0]
Null == [t |-> "null", v |-> 0]
IsNum(x) == x.t = "number"
\* A query parameter that is not in the URL.
Absent == <<-1>>

\* String.prototype.toLowerCase. The code units with a lower-case form come
\* in runs <<first, last, step, distance>>: every step-th unit from first to
\* last maps to the unit `distance` further on. U+0130 alone becomes two units.
LowerRuns ==
  {
    <<65, 90, 1, 32>>, <<192, 214, 1, 32>>, <<216, 222, 1, 32>>, <<256, 302, 2, 1>>,
    <<306, 310, 2, 1>>, <<313, 327, 2, 1>>, <<330, 374, 2, 1>>, <<376, 376, 1, -121>>,
    <<377, 381, 2, 1>>, <<385, 385, 1, 210>>, <<386, 388, 2, 1>>, <<390, 390, 1, 206>>,
    <<391, 391, 1, 1>>, <<393, 394, 1, 205>>, <<395, 395, 1, 1>>, <<398, 398, 1, 79>>,
    <<399, 399, 1, 202>>, <<400, 400, 1, 203>>, <<401, 401, 1, 1>>, <<403, 403, 1, 205>>,
    <<404, 404, 1, 207>>, <<406, 406, 1, 211>>, <<407, 407, 1, 209>>, <<408, 408, 1, 1>>,
    <<412, 412, 1, 211>>, <<413, 413, 1, 213>>, <<415, 415, 1, 214>>, <<416, 420, 2, 1>>,
    <<422, 422, 1, 218>>, <<423, 423, 1, 1>>, <<425, 425, 1, 218>>, <<428, 428, 1, 1>>,
    <<430, 430, 1, 218>>, <<431, 431, 1, 1>>, <<433, 434, 1, 217>>, <<435, 437, 2, 1>>,
    <<439, 439, 1, 219>>, <<440, 440, 1, 1>>, <<444, 444, 1, 1>>, <<452, 452, 1, 2>>,
    <<453, 453, 1, 1>>, <<455, 455, 1, 2>>, <<456, 456, 1, 1>>, <<458, 458, 1, 2>>,
    <<459, 475, 2, 1>>, <<478, 494, 2, 1>>, <<497, 497, 1, 2>>, <<498, 500, 2, 1>>,
    <<502, 502, 1, -97>>, <<503, 503, 1, -56>>, <<504, 542, 2, 1>>, <<544, 544, 1, -130>>,
    <<546, 562, 2, 1>>, <<570, 570, 1, 10795>>, <<571, 571, 1, 1>>, <<573, 573, 1, -163>>,
    <<574, 574, 1, 10792>>, <<577, 577, 1, 1>>, <<579, 579, 1, -195>>, <<580, 580, 1, 69>>,
    <<581, 581, 1, 71>>, <<582, 590, 2, 1>>, <<880, 882, 2, 1>>, <<886, 886, 1, 1>>,
    <<895, 895, 1, 116>>, <<902, 902, 1, 38>>, <<904, 906, 1, 37>>, <<908, 908, 1, 64>>,
    <<910, 911, 1, 63>>, <<913, 929, 1, 32>>, <<931, 939, 1, 32>>, <<975, 975, 1, 8>>,
    <<984, 1006, 2, 1>>, <<1012, 1012, 1, -60>>, <<1015, 1015, 1, 1>>, <<1017, 1017, 1, -7>>,
    <<1018, 1018, 1, 1>>, <<1021, 1023, 1, -130>>, <<1024, 1039, 1, 80>>, <<1040, 1071, 1, 32>>,
    <<1120, 1152, 2, 1>>, <<1162, 1214, 2, 1>>, <<1216, 1216, 1, 15>>, <<1217, 1229, 2, 1>>,
    <<1232, 1326, 2, 1>>, <<1329, 1366, 1, 48>>, <<4256, 4293, 1, 7264>>, <<4295, 4295, 1, 7264>>,
    <<4301, 4301, 1, 7264>>, <<5024, 5103, 1, 38864>>, <<5104, 5109, 1, 8>>, <<7305, 7305, 1, 1>>,
    <<7312, 7354, 1, -3008>>, <<7357, 7359, 1, -3008>>, <<7680, 7828, 2, 1>>, <<7838, 7838, 1, -7615>>,
    <<7840, 7934, 2, 1>>, <<7944, 7951, 1, -8>>, <<7960, 7965, 1, -8>>, <<7976, 7983, 1, -8>>,
    <<7992, 7999, 1, -8>>, <<8008, 8013, 1, -8>>, <<8025, 8031, 2, -8>>, <<8040, 8047, 1, -8>>,
    <<8072, 8079, 1, -8>>, <<8088, 8095, 1, -8>>, <<8104, 8111, 1, -8>>, <<8120, 8121, 1, -8>>,
    <<8122, 8123, 1, -74>>, <<8124, 8124, 1, -9>>, <<8136, 8139, 1, -86>>, <<8140, 8140, 1, -9>>,
    <<8152, 8153, 1, -8>>, <<8154, 8155, 1, -100>>, <<8168, 8169, 1, -8>>, <<8170, 8171, 1, -112>>,
    <<8172, 8172, 1, -7>>, <<8184, 8185, 1, -128>>, <<8186, 8187, 1, -126>>, <<8188, 8188, 1, -9>>,
    <<8486, 8486, 1, -7517>>, <<8490, 8490, 1, -8383>>, <<8491, 8491, 1, -8262>>, <<8498, 8498, 1, 28>>,
    <<8544, 8559, 1, 16>>, <<8579, 8579, 1, 1>>, <<9398, 9423, 1, 26>>, <<11264, 11311, 1, 48>>,
    <<11360, 11360, 1, 1>>, <<11362, 11362, 1, -10743>>, <<11363, 11363, 1, -3814>>, <<11364, 11364, 1, -10727>>,
    <<11367, 11371, 2, 1>>, <<11373, 11373, 1, -10780>>, <<11374, 11374, 1, -10749>>, <<11375, 11375, 1, -10783>>,
    <<11376, 11376, 1, -10782>>, <<11378, 11378, 1, 1>>, <<11381, 11381, 1, 1>>, <<11390, 11391, 1, -10815>>,
    <<11392, 11490, 2, 1>>, <<11499, 11501, 2, 1>>, <<11506, 11506, 1, 1>>, <<42560, 42604, 2, 1>>,
    <<42624, 42650, 2, 1>>, <<42786, 42798, 2, 1>>, <<42802, 42862, 2, 1>>, <<42873, 42875, 2, 1>>,
    <<42877, 42877, 1, -35332>>, <<42878, 42886, 2, 1>>, <<42891, 42891, 1, 1>>, <<42893, 42893, 1, -42280>>,
    <<42896, 42898, 2, 1>>, <<42902, 42920, 2, 1>>, <<42922, 42922, 1, -42308>>, <<42923, 42923, 1, -42319>>,
    <<42924, 42924, 1, -42315>>, <<42925, 42925, 1, -42305>>, <<42926, 42926, 1, -42308>>, <<42928, 42928, 1, -42258>>,
    <<42929, 42929, 1, -42282>>, <<42930, 42930, 1, -42261>>, <<42931, 42931, 1, 928>>, <<42932, 42946, 2, 1>>,
    <<42948, 42948, 1, -48>>, <<42949, 42949, 1, -42307>>, <<42950, 42950, 1, -35384>>, <<42951, 42953, 2, 1>>,
    <<42955, 42955, 1, -42343>>, <<42956, 42970, 2, 1>>, <<42972, 42972, 1, -42561>>, <<42997, 42997, 1, 1>>,
    <<65313, 65338, 1, 32>> }
LowerUnit(c) ==
  IF c < 128 THEN << IF c >= 65 /\ c <= 90 THEN c + 32 ELSE c >>
  ELSE IF c = 304 THEN <<105, 775>>
  ELSE LET hit == { r \in LowerRuns : c >= r[1] /\ c <= r[2] /\ (c - r[1]) % r[3] = 0 }
       IN IF hit = {} THEN <<c>> ELSE << c + (CHOOSE r \in hit : TRUE)[4] >>
\* The first and the last index in lo..hi at which the flags f hold, 0 when
\* there is none.
FirstTrue(f, lo, hi) ==
  IF \E i \in lo..hi : f[i]
  THEN CHOOSE i \in lo..hi : f[i] /\ \A j \in lo..(i - 1) : ~f[j]
  ELSE 0
LastTrue(f, lo, hi) ==
  IF \E k \in 0..(hi - lo) : f[hi - k]
  THEN hi - (CHOOSE k \in 0..(hi - lo) : f[hi - k] /\ \A j \in 0..(k - 1) : ~f[hi - j])
  ELSE 0

\* A pair of surrogates is one code point above U+FFFF; a surrogate without
\* its partner is a code point of its own.
IsHighSurrogate(c) == c >= 55296 /\ c <= 56319
IsLowSurrogate(c) == c >= 56320 /\ c <= 57343
PairValue(hi, lo) == 65536 + (hi - 55296) * 1024 + (lo - 56320)
PairOf(c) == << 55296 + ((c - 65536) \div 1024), 56320 + ((c - 65536) % 1024) >>
\* the code point that starts at unit i
PointAt(s, i) ==
  IF IsHighSurrogate(s[i]) /\ i < Len(s) /\ IsLowSurrogate(s[i + 1])
  THEN PairValue(s[i], s[i + 1]) ELSE s[i]
\* unit i is the second half of a pair
IsTrail(s, i) == IsLowSurrogate(s[i]) /\ i > 1 /\ IsHighSurrogate(s[i - 1])

\* The code points above U+FFFF with a lower-case form, in runs
\* <<first, last, distance>>.
SupplementaryRuns ==
  {
    <<66560, 66599, 40>>, <<66736, 66771, 40>>, <<66928, 66938, 39>>, <<66940, 66954, 39>>, <<66956, 66962, 39>>,
    <<66964, 66965, 39>>, <<68736, 68786, 64>>, <<68944, 68965, 32>>, <<71840, 71871, 32>>, <<93760, 93791, 32>>,
    <<93856, 93880, 27>>, <<125184, 125217, 34>> }
LowerSupplementary(c) ==
  LET hit == { r \in SupplementaryRuns : c >= r[1] /\ c <= r[2] }
  IN PairOf(IF hit = {} THEN c ELSE c + (CHOOSE r \in hit : TRUE)[3])

\* The code points that are cased and not case-ignorable, and those that are
\* case-ignorable, in runs <<first, last>> (the Unicode properties Cased and
\* Case_Ignorable of version 17).
CasedRuns ==
  {
    <<65, 90>>, <<97, 122>>, <<170, 170>>, <<181, 181>>, <<186, 186>>, <<192, 214>>, <<216, 246>>,
    <<248, 442>>, <<444, 447>>, <<452, 659>>, <<662, 687>>, <<880, 883>>, <<886, 887>>, <<891, 893>>,
    <<895, 895>>, <<902, 902>>, <<904, 906>>, <<908, 908>>, <<910, 929>>, <<931, 1013>>, <<1015, 1153>>,
    <<1162, 1327>>, <<1329, 1366>>, <<1376, 1416>>, <<4256, 4293>>, <<4295, 4295>>, <<4301, 4301>>, <<4304, 4346>>,
    <<4349, 4351>>, <<5024, 5109>>, <<5112, 5117>>, <<7296, 7306>>, <<7312, 7354>>, <<7357, 7359>>, <<7424, 7467>>,
    <<7531, 7543>>, <<7545, 7578>>, <<7680, 7957>>, <<7960, 7965>>, <<7968, 8005>>, <<8008, 8013>>, <<8016, 8023>>,
    <<8025, 8025>>, <<8027, 8027>>, <<8029, 8029>>, <<8031, 8061>>, <<8064, 8116>>, <<8118, 8124>>, <<8126, 8126>>,
    <<8130, 8132>>, <<8134, 8140>>, <<8144, 8147>>, <<8150, 8155>>, <<8160, 8172>>, <<8178, 8180>>, <<8182, 8188>>,
    <<8450, 8450>>, <<8455, 8455>>, <<8458, 8467>>, <<8469, 8469>>, <<8473, 8477>>, <<8484, 8484>>, <<8486, 8486>>,
    <<8488, 8488>>, <<8490, 8493>>, <<8495, 8500>>, <<8505, 8505>>, <<8508, 8511>>, <<8517, 8521>>, <<8526, 8526>>,
    <<8544, 8575>>, <<8579, 8580>>, <<9398, 9449>>, <<11264, 11387>>, <<11390, 11492>>, <<11499, 11502>>, <<11506, 11507>>,
    <<11520, 11557>>, <<11559, 11559>>, <<11565, 11565>>, <<42560, 42605>>, <<42624, 42651>>, <<42786, 42863>>, <<42865, 42887>>,
    <<42891, 42894>>, <<42896, 42972>>, <<42997, 42998>>, <<43002, 43002>>, <<43824, 43866>>, <<43872, 43880>>, <<43888, 43967>>,
    <<64256, 64262>>, <<64275, 64279>>, <<65313, 65338>>, <<65345, 65370>>, <<66560, 66639>>, <<66736, 66771>>, <<66776, 66811>>,
    <<66928, 66938>>, <<66940, 66954>>, <<66956, 66962>>, <<66964, 66965>>, <<66967, 66977>>, <<66979, 66993>>, <<66995, 67001>>,
    <<67003, 67004>>, <<68736, 68786>>, <<68800, 68850>>, <<68944, 68965>>, <<68976, 68997>>, <<71840, 71903>>, <<93760, 93823>>,
    <<93856, 93880>>, <<93883, 93907>>, <<119808, 119892>>, <<119894, 119964>>, <<119966, 119967>>, <<119970, 119970>>, <<119973, 119974>>,
    <<119977, 119980>>, <<119982, 119993>>, <<119995, 119995>>, <<119997, 120003>>, <<120005, 120069>>, <<120071, 120074>>, <<120077, 120084>>,
    <<120086, 120092>>, <<120094, 120121>>, <<120123, 120126>>, <<120128, 120132>>, <<120134, 120134>>, <<120138, 120144>>, <<120146, 120485>>,
    <<120488, 120512>>, <<120514, 120538>>, <<120540, 120570>>, <<120572, 120596>>, <<120598, 120628>>, <<120630, 120654>>, <<120656, 120686>>,
    <<120688, 120712>>, <<120714, 120744>>, <<120746, 120770>>, <<120772, 120779>>, <<122624, 122633>>, <<122635, 122654>>, <<122661, 122666>>,
    <<125184, 125251>>, <<127280, 127305>>, <<127312, 127337>>, <<127344, 127369>> }
IgnorableRuns ==
  {
    <<39, 39>>, <<46, 46>>, <<58, 58>>, <<94, 94>>, <<96, 96>>, <<168, 168>>, <<173, 173>>,
    <<175, 175>>, <<180, 180>>, <<183, 184>>, <<688, 879>>, <<884, 885>>, <<890, 890>>, <<900, 901>>,
    <<903, 903>>, <<1155, 1161>>, <<1369, 1369>>, <<1375, 1375>>, <<1425, 1469>>, <<1471, 1471>>, <<1473, 1474>>,
    <<1476, 1477>>, <<1479, 1479>>, <<1524, 1524>>, <<1536, 1541>>, <<1552, 1562>>, <<1564, 1564>>, <<1600, 1600>>,
    <<1611, 1631>>, <<1648, 1648>>, <<1750, 1757>>, <<1759, 1768>>, <<1770, 1773>>, <<1807, 1807>>, <<1809, 1809>>,
    <<1840, 1866>>, <<1958, 1968>>, <<2027, 2037>>, <<2042, 2042>>, <<2045, 2045>>, <<2070, 2093>>, <<2137, 2139>>,
    <<2184, 2184>>, <<2192, 2193>>, <<2199, 2207>>, <<2249, 2306>>, <<2362, 2362>>, <<2364, 2364>>, <<2369, 2376>>,
    <<2381, 2381>>, <<2385, 2391>>, <<2402, 2403>>, <<2417, 2417>>, <<2433, 2433>>, <<2492, 2492>>, <<2497, 2500>>,
    <<2509, 2509>>, <<2530, 2531>>, <<2558, 2558>>, <<2561, 2562>>, <<2620, 2620>>, <<2625, 2626>>, <<2631, 2632>>,
    <<2635, 2637>>, <<2641, 2641>>, <<2672, 2673>>, <<2677, 2677>>, <<2689, 2690>>, <<2748, 2748>>, <<2753, 2757>>,
    <<2759, 2760>>, <<2765, 2765>>, <<2786, 2787>>, <<2810, 2815>>, <<2817, 2817>>, <<2876, 2876>>, <<2879, 2879>>,
    <<2881, 2884>>, <<2893, 2893>>, <<2901, 2902>>, <<2914, 2915>>, <<2946, 2946>>, <<3008, 3008>>, <<3021, 3021>>,
    <<3072, 3072>>, <<3076, 3076>>, <<3132, 3132>>, <<3134, 3136>>, <<3142, 3144>>, <<3146, 3149>>, <<3157, 3158>>,
    <<3170, 3171>>, <<3201, 3201>>, <<3260, 3260>>, <<3263, 3263>>, <<3270, 3270>>, <<3276, 3277>>, <<3298, 3299>>,
    <<3328, 3329>>, <<3387, 3388>>, <<3393, 3396>>, <<3405, 3405>>, <<3426, 3427>>, <<3457, 3457>>, <<3530, 3530>>,
    <<3538, 3540>>, <<3542, 3542>>, <<3633, 3633>>, <<3636, 3642>>, <<3654, 3662>>, <<3761, 3761>>, <<3764, 3772>>,
    <<3782, 3782>>, <<3784, 3790>>, <<3864, 3865>>, <<3893, 3893>>, <<3895, 3895>>, <<3897, 3897>>, <<3953, 3966>>,
    <<3968, 3972>>, <<3974, 3975>>, <<3981, 3991>>, <<3993, 4028>>, <<4038, 4038>>, <<4141, 4144>>, <<4146, 4151>>,
    <<4153, 4154>>, <<4157, 4158>>, <<4184, 4185>>, <<4190, 4192>>, <<4209, 4212>>, <<4226, 4226>>, <<4229, 4230>>,
    <<4237, 4237>>, <<4253, 4253>>, <<4348, 4348>>, <<4957, 4959>>, <<5906, 5908>>, <<5938, 5939>>, <<5970, 5971>>,
    <<6002, 6003>>, <<6068, 6069>>, <<6071, 6077>>, <<6086, 6086>>, <<6089, 6099>>, <<6103, 6103>>, <<6109, 6109>>,
    <<6155, 6159>>, <<6211, 6211>>, <<6277, 6278>>, <<6313, 6313>>, <<6432, 6434>>, <<6439, 6440>>, <<6450, 6450>>,
    <<6457, 6459>>, <<6679, 6680>>, <<6683, 6683>>, <<6742, 6742>>, <<6744, 6750>>, <<6752, 6752>>, <<6754, 6754>>,
    <<6757, 6764>>, <<6771, 6780>>, <<6783, 6783>>, <<6823, 6823>>, <<6832, 6877>>, <<6880, 6891>>, <<6912, 6915>>,
    <<6964, 6964>>, <<6966, 6970>>, <<6972, 6972>>, <<6978, 6978>>, <<7019, 7027>>, <<7040, 7041>>, <<7074, 7077>>,
    <<7080, 7081>>, <<7083, 7085>>, <<7142, 7142>>, <<7144, 7145>>, <<7149, 7149>>, <<7151, 7153>>, <<7212, 7219>>,
    <<7222, 7223>>, <<7288, 7293>>, <<7376, 7378>>, <<7380, 7392>>, <<7394, 7400>>, <<7405, 7405>>, <<7412, 7412>>,
    <<7416, 7417>>, <<7468, 7530>>, <<7544, 7544>>, <<7579, 7679>>, <<8125, 8125>>, <<8127, 8129>>, <<8141, 8143>>,
    <<8157, 8159>>, <<8173, 8175>>, <<8189, 8190>>, <<8203, 8207>>, <<8216, 8217>>, <<8228, 8228>>, <<8231, 8231>>,
    <<8234, 8238>>, <<8288, 8292>>, <<8294, 8303>>, <<8305, 8305>>, <<8319, 8319>>, <<8336, 8348>>, <<8400, 8432>>,
    <<11388, 11389>>, <<11503, 11505>>, <<11631, 11631>>, <<11647, 11647>>, <<11744, 11775>>, <<11823, 11823>>, <<12293, 12293>>,
    <<12330, 12333>>, <<12337, 12341>>, <<12347, 12347>>, <<12441, 12446>>, <<12540, 12542>>, <<40981, 40981>>, <<42232, 42237>>,
    <<42508, 42508>>, <<42607, 42610>>, <<42612, 42621>>, <<42623, 42623>>, <<42652, 42655>>, <<42736, 42737>>, <<42752, 42785>>,
    <<42864, 42864>>, <<42888, 42890>>, <<42993, 42996>>, <<43000, 43001>>, <<43010, 43010>>, <<43014, 43014>>, <<43019, 43019>>,
    <<43045, 43046>>, <<43052, 43052>>, <<43204, 43205>>, <<43232, 43249>>, <<43263, 43263>>, <<43302, 43309>>, <<43335, 43345>>,
    <<43392, 43394>>, <<43443, 43443>>, <<43446, 43449>>, <<43452, 43453>>, <<43471, 43471>>, <<43493, 43494>>, <<43561, 43566>>,
    <<43569, 43570>>, <<43573, 43574>>, <<43587, 43587>>, <<43596, 43596>>, <<43632, 43632>>, <<43644, 43644>>, <<43696, 43696>>,
    <<43698, 43700>>, <<43703, 43704>>, <<43710, 43711>>, <<43713, 43713>>, <<43741, 43741>>, <<43756, 43757>>, <<43763, 43764>>,
    <<43766, 43766>>, <<43867, 43871>>, <<43881, 43883>>, <<44005, 44005>>, <<44008, 44008>>, <<44013, 44013>>, <<64286, 64286>>,
    <<64434, 64450>>, <<65024, 65039>>, <<65043, 65043>>, <<65056, 65071>>, <<65106, 65106>>, <<65109, 65109>>, <<65279, 65279>>,
    <<65287, 65287>>, <<65294, 65294>>, <<65306, 65306>>, <<65342, 65342>>, <<65344, 65344>>, <<65392, 65392>>, <<65438, 65439>>,
    <<65507, 65507>>, <<65529, 65531>>, <<66045, 66045>>, <<66272, 66272>>, <<66422, 66426>>, <<67456, 67461>>, <<67463, 67504>>,
    <<67506, 67514>>, <<68097, 68099>>, <<68101, 68102>>, <<68108, 68111>>, <<68152, 68154>>, <<68159, 68159>>, <<68325, 68326>>,
    <<68900, 68903>>, <<68942, 68942>>, <<68969, 68973>>, <<68975, 68975>>, <<69291, 69292>>, <<69317, 69317>>, <<69370, 69375>>,
    <<69446, 69456>>, <<69506, 69509>>, <<69633, 69633>>, <<69688, 69702>>, <<69744, 69744>>, <<69747, 69748>>, <<69759, 69761>>,
    <<69811, 69814>>, <<69817, 69818>>, <<69821, 69821>>, <<69826, 69826>>, <<69837, 69837>>, <<69888, 69890>>, <<69927, 69931>>,
    <<69933, 69940>>, <<70003, 70003>>, <<70016, 70017>>, <<70070, 70078>>, <<70089, 70092>>, <<70095, 70095>>, <<70191, 70193>>,
    <<70196, 70196>>, <<70198, 70199>>, <<70206, 70206>>, <<70209, 70209>>, <<70367, 70367>>, <<70371, 70378>>, <<70400, 70401>>,
    <<70459, 70460>>, <<70464, 70464>>, <<70502, 70508>>, <<70512, 70516>>, <<70587, 70592>>, <<70606, 70606>>, <<70608, 70608>>,
    <<70610, 70610>>, <<70625, 70626>>, <<70712, 70719>>, <<70722, 70724>>, <<70726, 70726>>, <<70750, 70750>>, <<70835, 70840>>,
    <<70842, 70842>>, <<70847, 70848>>, <<70850, 70851>>, <<71090, 71093>>, <<71100, 71101>>, <<71103, 71104>>, <<71132, 71133>>,
    <<71219, 71226>>, <<71229, 71229>>, <<71231, 71232>>, <<71339, 71339>>, <<71341, 71341>>, <<71344, 71349>>, <<71351, 71351>>,
    <<71453, 71453>>, <<71455, 71455>>, <<71458, 71461>>, <<71463, 71467>>, <<71727, 71735>>, <<71737, 71738>>, <<71995, 71996>>,
    <<71998, 71998>>, <<72003, 72003>>, <<72148, 72151>>, <<72154, 72155>>, <<72160, 72160>>, <<72193, 72202>>, <<72243, 72248>>,
    <<72251, 72254>>, <<72263, 72263>>, <<72273, 72278>>, <<72281, 72283>>, <<72330, 72342>>, <<72344, 72345>>, <<72544, 72544>>,
    <<72546, 72548>>, <<72550, 72550>>, <<72752, 72758>>, <<72760, 72765>>, <<72767, 72767>>, <<72850, 72871>>, <<72874, 72880>>,
    <<72882, 72883>>, <<72885, 72886>>, <<73009, 73014>>, <<73018, 73018>>, <<73020, 73021>>, <<73023, 73029>>, <<73031, 73031>>,
    <<73104, 73105>>, <<73109, 73109>>, <<73111, 73111>>, <<73177, 73177>>, <<73459, 73460>>, <<73472, 73473>>, <<73526, 73530>>,
    <<73536, 73536>>, <<73538, 73538>>, <<73562, 73562>>, <<78896, 78912>>, <<78919, 78933>>, <<90398, 90409>>, <<90413, 90415>>,
    <<92912, 92916>>, <<92976, 92982>>, <<92992, 92995>>, <<93504, 93506>>, <<93547, 93548>>, <<94031, 94031>>, <<94095, 94111>>,
    <<94176, 94177>>, <<94179, 94180>>, <<94194, 94195>>, <<110576, 110579>>, <<110581, 110587>>, <<110589, 110590>>, <<113821, 113822>>,
    <<113824, 113827>>, <<118528, 118573>>, <<118576, 118598>>, <<119143, 119145>>, <<119155, 119170>>, <<119173, 119179>>, <<119210, 119213>>,
    <<119362, 119364>>, <<121344, 121398>>, <<121403, 121452>>, <<121461, 121461>>, <<121476, 121476>>, <<121499, 121503>>, <<121505, 121519>>,
    <<122880, 122886>>, <<122888, 122904>>, <<122907, 122913>>, <<122915, 122916>>, <<122918, 122922>>, <<122928, 122989>>, <<123023, 123023>>,
    <<123184, 123197>>, <<123566, 123566>>, <<123628, 123631>>, <<124139, 124143>>, <<124398, 124399>>, <<124643, 124643>>, <<124646, 124646>>,
    <<124654, 124655>>, <<124661, 124661>>, <<124671, 124671>>, <<125136, 125142>>, <<125252, 125259>>, <<127995, 127999>>, <<917505, 917505>>,
    <<917536, 917631>>, <<917760, 917999>> }
IsCased(c) == \E r \in CasedRuns : c >= r[1] /\ c <= r[2]
IsCaseIgnorable(c) == \E r \in IgnorableRuns : c >= r[1] /\ c <= r[2]

\* The capital sigma takes its final form when a cased letter precedes it and
\* none follows it, case-ignorable code points between them skipped.
\* kept marks the units where a code point starts that is not skipped;
\* before and after are the nearest of them on either side of unit i, or 0.
CasedAround(cased, before, after) == cased[before] /\ ~cased[after]
SigmaAround(s, before, after) ==
  CasedAround([j \in {before, after} |-> j # 0 /\ IsCased(PointAt(s, j))], before, after)
SigmaBetween(s, i, kept) ==
  SigmaAround(s, LastTrue(kept, 1, i - 1), FirstTrue(kept, i + 1, Len(s)))
IsFinalSigma(s, i) ==
  SigmaBetween(s, i, [k \in 1..Len(s) |->
                        ~IsTrail(s, k) /\ ~IsCaseIgnorable(PointAt(s, k))])

\* the lower-case form of the code point that starts at unit i; the second
\* half of a pair gives nothing of its own
LowerAt(s, i) ==
  IF IsTrail(s, i) THEN <<>>
  ELSE IF s[i] = 931 THEN << IF IsFinalSigma(s, i) THEN 962 ELSE 963 >>
  ELSE IF PointAt(s, i) > 65535 THEN LowerSupplementary(PointAt(s, i))
  ELSE LowerUnit(s[i])

toLowerCaseIdentity(s) == s
\* the lower-case forms of the units lo..hi
RECURSIVE LowerPart(_, _, _)
LowerPart(s, lo, hi) ==
  IF lo > hi THEN <<>>
  ELSE IF lo = hi THEN LowerAt(s, lo)
  ELSE LowerPart(s, lo, (lo + hi) \div 2) \o LowerPart(s, ((lo + hi) \div 2) + 1, hi)
toLowerCase(s) ==
  IF \A i \in 1..Len(s) : s[i] < 128
  THEN [i \in 1..Len(s) |-> IF s[i] >= 65 /\ s[i] <= 90 THEN s[i] + 32 ELSE s[i]]
  ELSE LowerPart(s, 1, Len(s))

\* The white space and line terminator code units of ECMAScript.
WhiteSpace ==
  {9, 10, 11, 12, 13, 32, 160, 5760, 8232, 8233, 8239, 8287, 12288, 65279}
    \cup (8192..8202)

\* String.prototype.trim: drops the white space at both ends.
TrimLeft(s) ==
  IF s = <<>> \/ s[1] \notin WhiteSpace THEN s
  ELSE LET i == FirstTrue([j \in 1..Len(s) |-> s[j] \notin WhiteSpace], 1, Len(s))
       IN IF i = 0 THEN <<>> ELSE SubSeq(s, i, Len(s))
TrimRight(s) ==
  IF s = <<>> \/ s[Len(s)] \notin WhiteSpace THEN s
  ELSE SubSeq(s, 1, LastTrue([j \in 1..Len(s) |-> s[j] \notin WhiteSpace], 1, Len(s)))
trim(s) == TrimRight(TrimLeft(s))

\* String.prototype.split(':'): the pieces between the colons.
split(s) ==
  LET colons == SelectSeq([i \in 1..Len(s) |-> i], LAMBDA i : s[i] = 58)
      n == Len(colons)
  IN [k \in 1..(n + 1) |->
        SubSeq(s, IF k = 1 THEN 1 ELSE colons[k - 1] + 1,
                  IF k > n THEN Len(s) ELSE colons[k] - 1)]

\* String.prototype.includes: value occurs in s as a contiguous run.
includesPrefixOnly(s, value) ==
  Len(value) <= Len(s) /\ SubSeq(s, 1, Len(value)) = value
includes(s, value) ==
  \E i \in 0..(Len(s) - Len(value)) : SubSeq(s, i + 1, i + Len(value)) = value

\* a < b on strings: by the first differing code unit, a proper prefix first.
StrLess(a, b) ==
  LET n == Min(Len(a), Len(b))
      i == FirstTrue([j \in 1..n |-> a[j] # b[j]], 1, n)
  IN IF i = 0 THEN Len(a) < Len(b) ELSE a[i] < b[i]

\* ------------------------------------------------------- natural numbers
\* A natural number of any size is the sequence of its digits to the base
\* 10000, the least significant first and the last one not zero; <<>> is 0.
Base == 10000
Limb(a, i) == IF i <= Len(a) THEN a[i] ELSE 0
Trimmed(a) ==
  IF a = <<>> \/ a[Len(a)] # 0 THEN a
  ELSE SubSeq(a, 1, LastTrue([i \in 1..Len(a) |-> a[i] # 0], 1, Len(a)))
\* an integer 0 <= n < 2^31 as such a number, and back
BigOf(n) == Trimmed(<< n % Base, (n \div Base) % Base, n \div (Base * Base) >>)
IntOf(a) == Limb(a, 1) + Limb(a, 2) * Base + Limb(a, 3) * Base * Base
\* the number of decimal digits of a > 0
DecLen(a) ==
  4 * (Len(a) - 1)
    + (IF a[Len(a)] < 10 THEN 1 ELSE IF a[Len(a)] < 100 THEN 2
       ELSE IF a[Len(a)] < 1000 THEN 3 ELSE 4)

\* -1, 0 or 1 as a < b, a = b or a > b
RECURSIVE CmpPart(_, _, _, _)
CmpPart(a, b, lo, hi) ==
  IF lo > hi THEN 0
  ELSE IF lo = hi THEN (IF a[lo] < b[lo] THEN -1 ELSE IF a[lo] > b[lo] THEN 1 ELSE 0)
  ELSE LET Upper(high) == IF high # 0 THEN high ELSE CmpPart(a, b, lo, (lo + hi) \div 2)
       IN Upper(CmpPart(a, b, ((lo + hi) \div 2) + 1, hi))
Cmp(a, b) ==
  IF Len(a) < Len(b) THEN -1 ELSE IF Len(a) > Len(b) THEN 1
  ELSE CmpPart(a, b, 1, Len(a))

\* a * k + c for 0 <= k <= 10000 and 0 <= c < 10000: the digits lo..hi with
\* the carry c coming in, as <<digits, carry out>>
RECURSIVE MulPart(_, _, _, _, _)
MulPart(a, k, lo, hi, c) ==
  IF lo > hi THEN << <<>>, c >>
  ELSE IF lo = hi THEN << <<(a[lo] * k + c) % Base>>, (a[lo] * k + c) \div Base >>
  ELSE LET Glued(low, high) == << low[1] \o high[1], high[2] >>
           Upper(low) == Glued(low, MulPart(a, k, ((lo + hi) \div 2) + 1, hi, low[2]))
       IN Upper(MulPart(a, k, lo, (lo + hi) \div 2, c))
MulSmall(a, k, c) ==
  IF a = <<>> THEN (IF c = 0 THEN <<>> ELSE <<c>>)
  ELSE LET WithCarry(r) == Trimmed(r[1] \o (IF r[2] = 0 THEN <<>> ELSE <<r[2]>>))
       IN WithCarry(MulPart(a, k, 1, Len(a), c))

\* a + b
RECURSIVE AddPart(_, _, _, _, _)
AddPart(a, b, lo, hi, c) ==
  IF lo > hi THEN << <<>>, c >>
  ELSE IF lo = hi
  THEN << <<(Limb(a, lo) + Limb(b, lo) + c) % Base>>,
          (Limb(a, lo) + Limb(b, lo) + c) \div Base >>
  ELSE LET Glued(low, high) == << low[1] \o high[1], high[2] >>
           Upper(low) == Glued(low, AddPart(a, b, ((lo + hi) \div 2) + 1, hi, low[2]))
       IN Upper(AddPart(a, b, lo, (lo + hi) \div 2, c))
Add(a, b) ==
  IF a = <<>> THEN b
  ELSE IF b = <<>> THEN a
  ELSE LET WithCarry(r) == r[1] \o (IF r[2] = 0 THEN <<>> ELSE <<r[2]>>)
       IN WithCarry(AddPart(a, b, 1, Max(Len(a), Len(b)), 0))

\* a - b for a >= b
RECURSIVE SubPart(_, _, _, _, _)
SubPart(a, b, lo, hi, c) ==
  IF lo > hi THEN << <<>>, c >>
  ELSE IF lo = hi
  THEN IF a[lo] - Limb(b, lo) - c < 0
       THEN << <<a[lo] - Limb(b, lo) - c + Base>>, 1 >>
       ELSE << <<a[lo] - Limb(b, lo) - c>>, 0 >>
  ELSE LET Glued(low, high) == << low[1] \o high[1], high[2] >>
           Upper(low) == Glued(low, SubPart(a, b, ((lo + hi) \div 2) + 1, hi, low[2]))
       IN Upper(SubPart(a, b, lo, (lo + hi) \div 2, c))
Sub(a, b) ==
  IF b = <<>> \/ a = <<>> THEN a ELSE Trimmed(SubPart(a, b, 1, Len(a), 0)[1])

\* a divided by k for 0 < k <= 10000: the digits hi down to lo with the
\* remainder r coming in from above, as <<digits, remainder>>, the most
\* significant digit first
RECURSIVE DivPart(_, _, _, _, _)
DivPart(a, k, lo, hi, r) ==
  IF lo > hi THEN << <<>>, r >>
  ELSE IF lo = hi THEN << <<(r * Base + a[lo]) \div k>>, (r * Base + a[lo]) % k >>
  ELSE LET Glued(high, low) == << high[1] \o low[1], low[2] >>
           Lower(high) == Glued(high, DivPart(a, k, lo, (lo + hi) \div 2, high[2]))
       IN Lower(DivPart(a, k, ((lo + hi) \div 2) + 1, hi, r))
DivSmall(a, k) ==
  IF a = <<>> THEN <<>>
  ELSE LET Reversed(d) == Trimmed([i \in 1..Len(a) |-> d[Len(a) + 1 - i]])
       IN Reversed(DivPart(a, k, 1, Len(a), 0)[1])

\* a * 2^n, a * 5^n, a * 10^n and the whole part of a / 2^n
RECURSIVE MulPow2(_, _)
MulPow2(a, n) ==
  IF a = <<>> THEN <<>>
  ELSE IF n <= 13 THEN MulSmall(a, 2^n, 0)
  ELSE MulPow2(MulPow2(a, n \div 2), n - (n \div 2))
RECURSIVE MulPow5(_, _)
MulPow5(a, n) ==
  IF a = <<>> THEN <<>>
  ELSE IF n <= 5 THEN MulSmall(a, 5^n, 0)
  ELSE MulPow5(MulPow5(a, n \div 2), n - (n \div 2))
MulPow10(a, n) ==
  IF a = <<>> THEN <<>>
  ELSE [i \in 1..(n \div 4) |-> 0] \o MulSmall(a, 10^(n % 4), 0)
RECURSIVE DivPow2(_, _)
DivPow2(a, n) ==
  IF a = <<>> THEN <<>>
  ELSE IF n <= 13 THEN DivSmall(a, 2^n)
  ELSE DivPow2(DivPow2(a, n \div 2), n - (n \div 2))

\* a * b
RECURSIVE MulRange(_, _, _, _)
MulRange(a, b, lo, hi) ==
  IF lo = hi THEN (IF b[lo] = 0 \/ a = <<>> THEN <<>>
                   ELSE [i \in 1..(lo - 1) |-> 0] \o MulSmall(a, b[lo], 0))
  ELSE Add(MulRange(a, b, lo, (lo + hi) \div 2),
           MulRange(a, b, ((lo + hi) \div 2) + 1, hi))
MulBig(a, b) == IF b = <<>> THEN <<>> ELSE MulRange(a, b, 1, Len(b))

\* The number written by decimal digits (values 0..9, the first one the most
\* significant), and the decimal digits of a number a > 0.
FromDigits(d) ==
  LET n == Len(d)
      At(i) == IF i >= 1 THEN d[i] ELSE 0
  IN Trimmed([j \in 1..((n + 3) \div 4) |->
                At(n - 4 * (j - 1)) + 10 * At(n - 4 * (j - 1) - 1)
                  + 100 * At(n - 4 * (j - 1) - 2) + 1000 * At(n - 4 * (j - 1) - 3)])
ToDigits(a) ==
  LET n == DecLen(a)
  IN [i \in 1..n |-> (a[((n - i) \div 4) + 1] \div (10^((n - i) % 4))) % 10]
\* The number written by hexadecimal digits lo..hi of d.
RECURSIVE FromHex(_, _, _)
FromHex(d, lo, hi) ==
  IF lo > hi THEN <<>>
  ELSE IF lo = hi THEN BigOf(d[lo])
  ELSE LET mid == (lo + hi) \div 2
       IN Add(MulPow2(FromHex(d, lo, mid), 4 * (hi - mid)), FromHex(d, mid + 1, hi))

\* ---------------------------------------------------------------- numbers
\* A JavaScript number is an IEEE 754 double. Num(n) is an integer n with
\* |n| <= MaxExact. Any other finite number is Double(neg, m, e), of the value
\* m * 2^e and negative when neg holds, with 2^52 <= m < 2^53, or m < 2^52
\* at e = -1074. Infinity and -Infinity are Infinite(neg). The sign of a zero
\* is not kept.
MaxExact == 2147483647
Two52 == <<496, 2737, 5996, 4503>>
Two53 == <<992, 5474, 1992, 9007>>
MinExponent == -1074
MaxExponent == 971
Double(neg, m, e) == [t |-> "double", neg |-> neg, m |-> m, e |-> e]
Infinite(neg) == [t |-> "infinity", neg |-> neg]
IsNaN(x) == x.t = "nan"
IsDouble(x) == x.t = "double"
IsInfinite(x) == x.t = "infinity"

\* m * 2^e in the form above, for m as in a Double.
CanonWhole(neg, m, e, w) ==
  IF MulPow2(w, 0 - e) = m
  THEN Num(IF neg THEN 0 - IntOf(w) ELSE IntOf(w))
  ELSE Double(neg, m, e)
Canon(neg, m, e) ==
  IF e >= -52 /\ e <= -22 THEN CanonWhole(neg, m, e, DivPow2(m, 0 - e))
  ELSE Double(neg, m, e)

\* A lower bound of floor(log2(p / q)), a few below it at most, from the two
\* top digits and the length of p and of q: log2(10000) is 13.28771...
Log2Small(n) == CHOOSE k \in 0..26 : 2^k <= n /\ n < 2^(k + 1)
Log2Low(a) ==
  IF Len(a) = 1 THEN Log2Small(a[1])
  ELSE Log2Small(a[Len(a)] * Base + a[Len(a) - 1])
         + (Len(a) - 2) * 13 + (((Len(a) - 2) * 28771) \div 100000)
Log2High(a) ==
  IF Len(a) = 1 THEN Log2Small(a[1]) + 1
  ELSE Log2Small(a[Len(a)] * Base + a[Len(a) - 1]) + 1
         + (Len(a) - 2) * 13 + (((Len(a) - 2) * 28772 + 99999) \div 100000)
LowerLog2(p, q) == Log2Low(p) - Log2High(q)

\* The exponent at which the quotient falls below 2^53: t is q * 2^53 at the
\* exponent e, doubled until it exceeds a.
RECURSIVE Raise(_, _, _)
Raise(a, t, e) ==
  IF Cmp(a, t) < 0 THEN << t, e >> ELSE Raise(a, MulSmall(t, 2, 0), e + 1)

\* One digit of a long division: r < w * 10000, and the top digit of w is
\* at least 5000, so the digit guessed from the top digits of r and w is at
\* most 2 too large. As <<digit, r - digit * w>>.
RECURSIVE Settled(_, _, _, _)
Settled(r, w, guess, t) ==
  IF Cmp(t, r) <= 0 THEN << guess, Sub(r, t) >> ELSE Settled(r, w, guess - 1, Sub(t, w))
Guess(r, w) ==
  Min(Base - 1, (Limb(r, Len(w) + 1) * Base + Limb(r, Len(w))) \div w[Len(w)])
DivDigit(r, w) == Settled(r, w, Guess(r, w), MulSmall(w, Guess(r, w), 0))
\* The digits n down to 1 of r divided by v, for r < v * 10000^n, as
\* <<quotient, remainder>>.
RECURSIVE DivDigits(_, _, _)
DivDigits(r, v, n) ==
  IF n = 0 THEN << <<>>, r >>
  ELSE IF r = <<>> THEN << [i \in 1..n |-> 0], r >>
  ELSE LET Glued(d, rest) == << rest[1] \o <<d[1]>>, rest[2] >>
           Lower(d) == Glued(d, DivDigits(d[2], v, n - 1))
       IN Lower(DivDigit(r, [i \in 1..(n - 1) |-> 0] \o v))
\* a divided by b, for a < b * 2^53, as <<quotient, remainder>>: both are
\* scaled first so that the top digit of the divisor is at least 5000.
Scale(b) == Base \div (b[Len(b)] + 1)
Unscaled(d, f) == << Trimmed(d[1]), DivSmall(d[2], f) >>
DivMod(a, b) ==
  Unscaled(DivDigits(MulSmall(a, Scale(b), 0), MulSmall(b, Scale(b), 0), 4), Scale(b))

\* The double nearest to p / q (q > 0), ties to the even one. The steps hand
\* one another what they found: e0 is the exponent to start from, a is p at
\* that exponent, te the divisor times 2^53 and the exponent, b the divisor
\* and d the quotient and the remainder.
RoundPlaced(neg, m, e) ==
  IF m = <<>> THEN Num(0)
  ELSE IF e + (IF m = Two53 THEN 1 ELSE 0) > MaxExponent THEN Infinite(neg)
  ELSE Canon(neg, IF m = Two53 THEN Two52 ELSE m, IF m = Two53 THEN e + 1 ELSE e)
RoundQuotient(neg, e, b, d) ==
  IF d[1] = <<>> /\ d[2] = <<>> THEN Num(0)
  ELSE RoundPlaced(neg,
                   IF Cmp(MulSmall(d[2], 2, IF d[1] # <<>> /\ d[1][1] % 2 = 1 THEN 1 ELSE 0),
                          b) > 0
                   THEN Add(d[1], <<1>>) ELSE d[1],
                   e)
RoundDivided(neg, a, e, b) ==
  IF b = <<>> THEN Num(0) ELSE RoundQuotient(neg, e, b, DivMod(a, b))
RoundRaised(neg, a, te) ==
  IF te[1] = <<>> THEN Num(0) ELSE RoundDivided(neg, a, te[2], DivPow2(te[1], 53))
RoundScaled(neg, q, e0, a) ==
  IF a = <<>> THEN Num(0)
  ELSE RoundRaised(neg, a, Raise(a, MulPow2(q, Max(0, e0) + 53), e0))
RoundFrom(neg, p, q, e0) == RoundScaled(neg, q, e0, MulPow2(p, Max(0, 0 - e0)))
RoundRatio(neg, p, q) ==
  IF p = <<>> THEN Num(0)
  ELSE IF DecLen(p) - 1 - DecLen(q) >= 309 THEN Infinite(neg)
  ELSE IF DecLen(p) - 1 - DecLen(q) <= -327 THEN Num(0)
  ELSE RoundFrom(neg, p, q, Max(LowerLog2(p, q) - 52, MinExponent))
\* The double nearest to n * 2^e.
RoundDyadic(neg, n, e) ==
  RoundRatio(neg, IF e >= 0 THEN MulPow2(n, e) ELSE n,
             IF e >= 0 THEN <<1>> ELSE MulPow2(<<1>>, 0 - e))

\* The sign, m and e of a finite number that is not zero.
PartsOf(x) ==
  IF IsDouble(x) THEN [neg |-> x.neg, m |-> x.m, e |-> x.e]
  ELSE LET a == IF x.v < 0 THEN 0 - x.v ELSE x.v
           k == CHOOSE k \in 0..30 : a \div (2^k) = 1
       IN [neg |-> x.v < 0, m |-> MulPow2(BigOf(a), 52 - k), e |-> k - 52]
IsZero(x) == IsNum(x) /\ x.v = 0
IsNegative(x) ==
  IF IsNum(x) THEN x.v < 0 ELSE (IsDouble(x) \/ IsInfinite(x)) /\ x.neg
Negated(x) ==
  IF IsNum(x) THEN Num(0 - x.v)
  ELSE IF IsDouble(x) THEN Double(~x.neg, x.m, x.e)
  ELSE IF IsInfinite(x) THEN Infinite(~x.neg)
  ELSE x

\* a + b; na and nb are the two at the common exponent e, c is Cmp(na, nb)
PlusSigned(pa, pb, e, na, nb, c) ==
  IF pa.neg # pb.neg /\ c = 0 THEN Num(0)
  ELSE RoundDyadic(IF pa.neg = pb.neg \/ c > 0 THEN pa.neg ELSE pb.neg,
                   IF pa.neg = pb.neg THEN Add(na, nb)
                   ELSE Sub(IF c > 0 THEN na ELSE nb, IF c > 0 THEN nb ELSE na),
                   e)
PlusAligned(pa, pb, e, na, nb) ==
  PlusSigned(pa, pb, e, na, nb, IF pa.neg = pb.neg THEN 0 ELSE Cmp(na, nb))
PlusParts(pa, pb) ==
  PlusAligned(pa, pb, Min(pa.e, pb.e),
              MulPow2(pa.m, pa.e - Min(pa.e, pb.e)), MulPow2(pb.m, pb.e - Min(pa.e, pb.e)))
Plus(a, b) ==
  IF IsNum(a) /\ IsNum(b) /\ a.v >= -1073741823 /\ a.v <= 1073741823
       /\ b.v >= -1073741823 /\ b.v <= 1073741823
  THEN Num(a.v + b.v)
  ELSE IF ~(IsNum(a) \/ IsDouble(a) \/ IsInfinite(a)) THEN NaN
  ELSE IF ~(IsNum(b) \/ IsDouble(b) \/ IsInfinite(b)) THEN NaN
  ELSE IF IsInfinite(a) THEN (IF IsInfinite(b) /\ a.neg # b.neg THEN NaN ELSE a)
  ELSE IF IsInfinite(b) THEN b
  ELSE IF IsZero(a) THEN b
  ELSE IF IsZero(b) THEN a
  ELSE PlusParts(PartsOf(a), PartsOf(b))
\* a - b
Minus(a, b) == Plus(a, Negated(b))

\* a * b
TimesParts(pa, pb) == RoundDyadic(pa.neg # pb.neg, MulBig(pa.m, pb.m), pa.e + pb.e)
Times(a, b) ==
  IF IsNum(a) /\ IsNum(b) /\ a.v >= -46340 /\ a.v <= 46340
       /\ b.v >= -46340 /\ b.v <= 46340
  THEN Num(a.v * b.v)
  ELSE IF ~(IsNum(a) \/ IsDouble(a) \/ IsInfinite(a)) THEN NaN
  ELSE IF ~(IsNum(b) \/ IsDouble(b) \/ IsInfinite(b)) THEN NaN
  ELSE IF IsInfinite(a) \/ IsInfinite(b)
  THEN (IF IsZero(a) \/ IsZero(b) THEN NaN ELSE Infinite(IsNegative(a) # IsNegative(b)))
  ELSE IF IsZero(a) \/ IsZero(b) THEN Num(0)
  ELSE TimesParts(PartsOf(a), PartsOf(b))

\* a / b; a zero divisor counts as +0
DividedParts(pa, pb) ==
  RoundRatio(pa.neg # pb.neg,
             MulPow2(pa.m, Max(0, pa.e - pb.e)), MulPow2(pb.m, Max(0, pb.e - pa.e)))
Divided(a, b) ==
  IF ~(IsNum(a) \/ IsDouble(a) \/ IsInfinite(a)) THEN NaN
  ELSE IF ~(IsNum(b) \/ IsDouble(b) \/ IsInfinite(b)) THEN NaN
  ELSE IF IsInfinite(a)
  THEN (IF IsInfinite(b) THEN NaN ELSE Infinite(IsNegative(a) # IsNegative(b)))
  ELSE IF IsInfinite(b) THEN Num(0)
  ELSE IF IsZero(b) THEN (IF IsZero(a) THEN NaN ELSE Infinite(IsNegative(a)))
  ELSE IF IsZero(a) THEN Num(0)
  ELSE DividedParts(PartsOf(a), PartsOf(b))

\* a < b; false when either is NaN
PartsLess(pa, pb) == pa.e < pb.e \/ (pa.e = pb.e /\ Cmp(pa.m, pb.m) < 0)
MagnitudeLess(a, b) ==
  IF IsInfinite(a) THEN FALSE
  ELSE IF IsInfinite(b) THEN TRUE
  ELSE PartsLess(PartsOf(a), PartsOf(b))
SignOf(x) == IF IsZero(x) THEN 0 ELSE IF IsNegative(x) THEN -1 ELSE 1
Less(a, b) ==
  IF IsNum(a) /\ IsNum(b) THEN a.v < b.v
  ELSE IF ~(IsNum(a) \/ IsDouble(a) \/ IsInfinite(a)) THEN FALSE
  ELSE IF ~(IsNum(b) \/ IsDouble(b) \/ IsInfinite(b)) THEN FALSE
  ELSE IF SignOf(a) # SignOf(b) THEN SignOf(a) < SignOf(b)
  ELSE IF SignOf(a) = 0 THEN FALSE
  ELSE MagnitudeLess(IF SignOf(a) > 0 THEN a ELSE b, IF SignOf(a) > 0 THEN b ELSE a)
\* a <= b
LessEq(a, b) ==
  (IsNum(a) \/ IsDouble(a) \/ IsInfinite(a))
    /\ (IsNum(b) \/ IsDouble(b) \/ IsInfinite(b)) /\ ~Less(b, a)

\* Math.ceil(x); whole is the whole part of |x|
CeilWhole(x, whole) ==
  RoundDyadic(x.neg,
              IF x.neg \/ MulPow2(whole, 0 - x.e) = x.m THEN whole ELSE Add(whole, <<1>>),
              0)
Ceil(x) ==
  IF ~IsDouble(x) \/ x.e >= 0 THEN x
  ELSE IF x.e <= -53 THEN (IF x.neg THEN Num(0) ELSE Num(1))
  ELSE CeilWhole(x, DivPow2(x.m, 0 - x.e))

\* The value of at most 9 digits to a radix, the first one the most
\* significant.
SmallValue(d, radix) ==
  LET n == Len(d)
      At(i) == IF i <= n THEN d[i] * radix^(n - i) ELSE 0
  IN At(1) + At(2) + At(3) + At(4) + At(5) + At(6) + At(7) + At(8) + At(9)

\* The number digits * 10^k, for decimal digits as in FromDigits.
Signed(neg, v) == Num(IF neg THEN 0 - v ELSE v)
DecimalValue(neg, d, k) ==
  IF d = <<>> THEN Num(0)
  ELSE IF DecLen(d) + k >= 310 THEN Infinite(neg)
  ELSE IF DecLen(d) + k <= -325 THEN Num(0)
  ELSE RoundRatio(neg, MulPow10(d, Max(0, k)), MulPow10(<<1>>, Max(0, 0 - k)))
FromDecimal(neg, digits, k) ==
  IF k = 0 /\ Len(digits) <= 9 THEN Signed(neg, SmallValue(digits, 10))
  ELSE DecimalValue(neg, FromDigits(digits), k)

\* The digits to a radix that s holds from the unit `from` on: their number
\* and their values.
DigitOf(c) ==
  IF c >= 48 /\ c <= 57 THEN c - 48
  ELSE IF c >= 97 /\ c <= 122 THEN c - 87
  ELSE IF c >= 65 /\ c <= 90 THEN c - 55
  ELSE 99
IsDigit(c, radix) == DigitOf(c) < radix
DigitRun(s, from, radix) ==
  IF from > Len(s) THEN 0
  ELSE LET stop == FirstTrue([i \in 1..Len(s) |-> ~IsDigit(s[i], radix)], from, Len(s))
       IN IF stop = 0 THEN Len(s) - from + 1 ELSE stop - from
DigitValues(s, from, n) == [i \in 1..n |-> DigitOf(s[from + i - 1])]

\* The number written by hexadecimal digits.
HexValue(neg, digits, first) ==
  IF first = 0 THEN Num(0)
  ELSE IF Len(digits) - first + 1 > 256 THEN Infinite(neg)
  ELSE RoundRatio(neg, FromHex(digits, first, Len(digits)), <<1>>)
FromHexDigits(neg, digits) ==
  IF Len(digits) <= 7 THEN Signed(neg, SmallValue(digits, 16))
  ELSE HexValue(neg, digits,
                FirstTrue([i \in 1..Len(digits) |-> digits[i] # 0], 1, Len(digits)))

\* parseInt(s) without a radix: optional white space, optional sign, an
\* optional 0x or 0X that makes the digits hexadecimal, then the digits up to
\* the first code unit that is none; NaN when there is no digit; an absent
\* parameter is undefined and parses to NaN.
IntDigits(neg, d, hex, n) ==
  IF n = 0 THEN NaN
  ELSE IF hex THEN FromHexDigits(neg, DigitValues(d, 3, n))
  ELSE FromDecimal(neg, DigitValues(d, 1, n), 0)
IntPrefixed(neg, d, hex) ==
  IntDigits(neg, d, hex, DigitRun(d, IF hex THEN 3 ELSE 1, IF hex THEN 16 ELSE 10))
IntUnsigned(neg, d) ==
  IntPrefixed(neg, d, Len(d) >= 2 /\ d[1] = 48 /\ d[2] \in {120, 88})
IntSigned(u) ==
  IntUnsigned(u # <<>> /\ Head(u) = 45,
              IF u # <<>> /\ Head(u) \in {43, 45} THEN Tail(u) ELSE u)
parseInt(s) == IF s = Absent THEN NaN ELSE IntSigned(TrimLeft(s))

\* x || y for a number x: NaN and 0 are falsy.
OrElse(x, y) == IF IsNum(x) \/ IsDouble(x) \/ IsInfinite(x) THEN (IF IsZero(x) THEN y ELSE x) ELSE y

\* Math.ceil(a / b) for integers a and b; NaN for 0 / 0 (b = 0 happens only
\* with a = 0 here).
CeilDivFloor(a, b) == IF b = 0 THEN NaN ELSE Num(a \div b)
CeilDiv(a, b) ==
  IF b = 0 THEN NaN
  ELSE IF b > 0 THEN Num(0 - ((0 - a) \div b)) ELSE Num(0 - (a \div (0 - b)))

\* ------------------------------------------------------------ the store
\* The documents the store can hold: name and email vary, the other fields
\* follow from the position in the store.
Candidates ==
  { [name |-> <<74, 111>>, email |-> <<66, 64>>],      \* Jo, B@
    [name |-> <<201, 111>>, email |-> <<97, 64>>] }     \* Éo, a@
\* Documents that differ in case alone, the capital being a sigma: its small
\* form is the final sigma at the end of a word and the sigma elsewhere.
GreekCandidates ==
  { [name |-> <<959, 931>>, email |-> <<931, 64>>],    \* οΣ, Σ@
    [name |-> <<959, 962>>, email |-> <<963, 64>>] }   \* ος, σ@
Document(c, k) ==
  [id |-> <<48 + k>>, name |-> c.name, email |-> c.email,
   password |-> <<36, 50, 98, 48 + k>>, balance |-> <<48 + k, 48>>,
   phone |-> <<48, 56, 48 + k>>, account_number |-> <<53, 51, 53, 48 + k>>]
Stores ==
  UNION { { [k \in 1..n |-> Document(cs[k], k)] : cs \in [1..n -> Candidates] }
          : n \in 0..MaxUsers }
GreekStores ==
  { [k \in 1..MaxGreek |-> Document(cs[k], k)] : cs \in [1..MaxGreek -> GreekCandidates] }

\* user[field]: the value of a document's field, undefined for any other name.
KnownField(field) ==
  field \in { <<105, 100>>, <<110, 97, 109, 101>>, <<101, 109, 97, 105, 108>>, <<112, 97, 115, 115, 119, 111, 114, 100>>,
              <<98, 97, 108, 97, 110, 99, 101>>, <<112, 104, 111, 110, 101>>, <<97, 99, 99, 111, 117, 110, 116, 95, 110, 117, 109, 98, 101, 114>> }
Field(user, field) ==
  CASE field = <<105, 100>> -> user.id
    [] field = <<110, 97, 109, 101>> -> user.name
    [] field = <<101, 109, 97, 105, 108>> -> user.email
    [] field = <<112, 97, 115, 115, 119, 111, 114, 100>> -> user.password
    [] field = <<98, 97, 108, 97, 110, 99, 101>> -> user.balance
    [] field = <<112, 104, 111, 110, 101>> -> user.phone
    [] field = <<97, 99, 99, 111, 117, 110, 116, 95, 110, 117, 109, 98, 101, 114>> -> user.account_number

\* ------------------------------------------------- users-service.getUsers
\* if (x): an absent parameter and the empty string are falsy.
Truthy(x) == x # Absent /\ x # <<>>
Parts(x) == [i \in 1..Len(split(x)) |-> trim(split(x)[i])]
LowerParts(x) == [i \in 1..Len(split(x)) |-> toLowerCase(trim(split(x)[i]))]

\* lines 68-72: the search applies when it splits into exactly two parts.
SearchAppliesTwoOrMore(search) == Truthy(search) /\ Len(Parts(search)) >= 2
SearchAppliesKnownOnly(search) ==
  Truthy(search) /\ Len(Parts(search)) = 2 /\ KnownField(Parts(search)[1])
SearchApplies(search) == Truthy(search) /\ Len(Parts(search)) = 2

\* lines 73-76: filter by user[field].includes(value).
Matches(user, field, value) == includes(Field(user, field), value)
FilterBySearch(list, field, value) ==
  SelectSeq(list, LAMBDA u : Matches(u, field, value))
\* user[field] is undefined: .includes throws on the first document.
FilterThrows(list, field) == list # <<>> /\ ~KnownField(field)

\* lines 86-97: the sort applies when it splits into exactly two parts.
SortApplies(sort) == Truthy(sort) /\ Len(split(sort)) = 2
SortBy(field) == IF field \in {<<110, 97, 109, 101>>, <<101, 109, 97, 105, 108>>} THEN field ELSE <<101, 109, 97, 105, 108>>
SortOrder(order) == IF order = <<100, 101, 115, 99>> THEN -1 ELSE 1

\* lines 98-105: the comparator.
CompareValues(valueA, valueB, sortOrder) ==
  IF StrLess(valueA, valueB) THEN -1 * sortOrder
  ELSE IF StrLess(valueB, valueA) THEN 1 * sortOrder
  ELSE 0
CompareLowered(a, b, lowered, sortOrder) == CompareValues(lowered[a], lowered[b], sortOrder)
Compare(a, b, sortBy, sortOrder) ==
  CompareLowered(a, b, [x \in {a, b} |-> toLowerCase(Field(x, sortBy))], sortOrder)

\* Array.prototype.sort is stable. A short list is sorted by insertion: an
\* element goes behind every element that does not compare greater than it.
RECURSIVE InsertSorted(_, _, _, _)
InsertSorted(sorted, x, sortBy, sortOrder) ==
  IF sorted = <<>> THEN <<x>>
  ELSE IF Compare(sorted[Len(sorted)], x, sortBy, sortOrder) > 0
       THEN Append(InsertSorted(SubSeq(sorted, 1, Len(sorted) - 1), x, sortBy, sortOrder),
                   sorted[Len(sorted)])
       ELSE Append(sorted, x)
RECURSIVE SortRun(_, _, _, _)
SortRun(sorted, rest, sortBy, sortOrder) ==
  IF rest = <<>> THEN sorted
  ELSE SortRun(InsertSorted(sorted, Head(rest), sortBy, sortOrder), Tail(rest),
               sortBy, sortOrder)
\* Two sorted lists merge into one: an element of the first goes behind the
\* elements of the second that compare less than it, an element of the second
\* goes behind the elements of the first that do not compare greater than it.
\* compared[i, j, TRUE] compares A[i] with B[j], compared[i, j, FALSE] B[j]
\* with A[i].
MergePlaced(A, B, place) ==
  [k \in 1..Len(place) |->
     LET i == CHOOSE i \in 1..Len(place) : place[i] = k
     IN IF i <= Len(A) THEN A[i] ELSE B[i - Len(A)]]
MergeCompared(A, B, compared) ==
  LET m == Len(A)
      n == Len(B)
      less(i) == FirstTrue([j \in 1..n |-> compared[i, j, FALSE] >= 0], 1, n)
  IN MergePlaced(A, B,
       [i \in 1..(m + n) |->
          IF i <= m THEN i + (IF less(i) = 0 THEN n ELSE less(i) - 1)
          ELSE (i - m) + LastTrue([k \in 1..m |-> compared[k, i - m, TRUE] <= 0], 1, m)])
Merge(A, B, sortBy, sortOrder) ==
  MergeCompared(A, B,
    [i \in 1..Len(A), j \in 1..Len(B), first \in BOOLEAN |->
       Compare(IF first THEN A[i] ELSE B[j], IF first THEN B[j] ELSE A[i],
               sortBy, sortOrder)])
\* the elements lo..hi of the list, sorted: a list longer than RunLength is
\* sorted in two halves that are merged
RunLength == 8
RECURSIVE SortFrom(_, _, _, _, _)
SortFrom(list, lo, hi, sortBy, sortOrder) ==
  IF hi - lo < RunLength THEN SortRun(<<>>, SubSeq(list, lo, hi), sortBy, sortOrder)
  ELSE Merge(SortFrom(list, lo, (lo + hi) \div 2, sortBy, sortOrder),
             SortFrom(list, ((lo + hi) \div 2) + 1, hi, sortBy, sortOrder),
             sortBy, sortOrder)
ArraySort(list, sortBy, sortOrder) == SortFrom(list, 1, Len(list), sortBy, sortOrder)

SortedBy(list, parts) == ArraySort(list, SortBy(parts[1]), SortOrder(parts[2]))
Sorted(list, sort) == IF SortApplies(sort) THEN SortedBy(list, LowerParts(sort)) ELSE list

\* lines 109-111: if (!limit || isNaN(limit)) limit = filteredCount.
EffectiveLimit(limit, filteredCount) == OrElse(limit, Num(filteredCount))

\* lines 118-125: the summary pushed for one document.
SummaryWithPassword(user) ==
  [id |-> user.id, name |-> user.name, balance |-> user.balance,
   email |-> user.email, phone |-> user.phone,
   account_number |-> user.account_number, password |-> user.password]
Summary(user) ==
  [id |-> user.id, name |-> user.name, balance |-> user.balance,
   email |-> user.email, phone |-> user.phone,
   account_number |-> user.account_number]

\* lines 113-126: the loop over startIndex <= i < endIndex, i < length; the
\* indices are 0-based. A negative index reads undefined and user.id throws;
\* LoopIndices are the indices of the loop when it does not throw.
StartIndexOneBased(page, limit) == Times(page, limit)
StartIndex(page, limit) == Times(Minus(page, Num(1)), limit)
EndIndex(page, limit) == Times(page, limit)
LoopIndices(list, startIndex, endIndex) ==
  { i \in 0..(Len(list) - 1) : LessEq(startIndex, Num(i)) /\ Less(Num(i), endIndex) }
LoopThrows(startIndex, endIndex) ==
  Less(startIndex, Num(0)) /\ Less(startIndex, endIndex)
PageItems(list, startIndex, indices) ==
  [k \in 1..Cardinality(indices) |-> Summary(list[startIndex.v + k])]
PageData(list, startIndex, endIndex) ==
  PageItems(list, startIndex, LoopIndices(list, startIndex, endIndex))

\* lines 128-130
TotalPages(filteredCount, limit) ==
  IF IsNum(limit) THEN CeilDiv(filteredCount, limit.v)
  ELSE Ceil(Divided(Num(filteredCount), limit))
HasPreviousPage(page) == Less(Num(1), page)
HasNextPage(page, totalPages) == Less(page, totalPages)

\* lines 109-140: paginate the filtered and sorted list.
PageResult(list, page, limit, totalPages, data) ==
  [t |-> "result",
   page_number |-> page,
   page_size |-> limit,
   count |-> Len(list),
   total_pages |-> totalPages,
   has_previous_page |-> HasPreviousPage(page),
   has_next_page |-> HasNextPage(page, totalPages),
   data |-> data]
PaginateLoop(list, page, limit, startIndex, endIndex) ==
  IF LoopThrows(startIndex, endIndex) THEN Null
  ELSE PageResult(list, page, limit, TotalPages(Len(list), limit),
                  PageData(list, startIndex, endIndex))
PaginateLimited(list, page, limit) ==
  PaginateLoop(list, page, limit, StartIndex(page, limit), EndIndex(page, limit))
Paginate(list, page, limitArg) ==
  PaginateLimited(list, page, EffectiveLimit(limitArg, Len(list)))

\* users-service.getUsers(page, limit, search, sort), lines 63-145.
PaginateFiltered(filteredUsers, searched, page, limit, sort) ==
  IF searched /\ filteredUsers = <<>> THEN Null
  ELSE Paginate(Sorted(filteredUsers, sort), page, limit)
serviceGetUsers(all, page, limit, search, sort) ==
  IF SearchApplies(search) /\ FilterThrows(all, Parts(search)[1]) THEN Null
  ELSE PaginateFiltered(IF SearchApplies(search)
                        THEN FilterBySearch(all, Parts(search)[1], Parts(search)[2])
                        ELSE all,
                        SearchApplies(search), page, limit, sort)

\* ---------------------------------------------- users-controller.getUsers
\* lines 15-16
PageOf(q) == OrElse(parseInt(q.page_number), Num(1))
LimitOf(q) == OrElse(parseInt(q.page_size), Undefined)

\* lines 20-27: null becomes the 404 error, anything else the 200 answer.
Responded(result) ==
  IF result = Null THEN [status |-> 404, body |-> Null]
  ELSE [status |-> 200, body |-> result]
controllerGetUsers(all, q) ==
  Responded(serviceGetUsers(all, PageOf(q), LimitOf(q), q.search, q.sort))

\* The decimal text of a small integer.
NumStr(n) == IF n < 0 THEN <<45, 48 - n>> ELSE <<48 + n>>
PageInputs == {Absent, <<48, 120, 50>>} \cup { NumStr(n) : n \in (-1)..MaxPage }
SizeInputs == {Absent, <<120>>} \cup { NumStr(n) : n \in (-1)..MaxSize }
SearchInputs ==
  { Absent,
    <<110, 97, 109, 101, 58, 74, 111>>,        \* name:Jo
    <<9, 110, 97, 109, 101, 32, 58, 32, 111, 160>>,     \* "\tname : o\u00a0"
    <<101, 109, 97, 105, 108, 58, 97, 64>>,       \* email:a@
    <<110, 97, 109, 101, 58, 233, 79>>,       \* name:éO
    <<110, 97, 109, 58, 74, 111>>,         \* nam:Jo
    <<110, 97, 109, 101>>,           \* name
    <<110, 97, 109, 101, 58, 74, 111, 58, 120>> }     \* name:Jo:x
SortInputs ==
  { Absent,
    <<110, 97, 109, 101, 58, 97, 115, 99>>,       \* name:asc
    <<78, 65, 77, 69, 58, 68, 69, 83, 67>>,      \* NAME:DESC
    <<101, 109, 97, 105, 108, 58, 100, 101, 115, 99, 9>>,    \* "email:desc\t"
    <<112, 104, 111, 110, 101, 58, 97, 115, 99>>,      \* phone:asc
    <<110, 97, 109, 101, 58, 117, 112>>,        \* name:up
    <<110, 97, 109, 101>> }          \* name

NoQuery == [page_number |-> Absent, page_size |-> Absent, search |-> Absent, sort |-> Absent]
NoResponse == [status |-> 0, body |-> Null]

\* The store holds any of the bounded user sets; no login request has arrived.
\* The requests that write users and the ids they may name.
Writers == 1..MaxWriters
UserIds == { <<48 + k>> : k \in 1..MaxUsers }
NoWrite ==
  [id |-> Absent, name |-> Absent, email |-> Absent, phone |-> Absent,
   balance |-> Absent, password |-> Absent, account_number |-> Absent,
   amount |-> Absent, deleteConfirm |-> Absent]

InitQuery ==
  /\ users \in Stores \cup GreekStores
  /\ query = NoQuery
  /\ response = NoResponse
  /\ loginAttempts = [e \in Emails |-> None]
  /\ now = 0
  /\ ticks = 0
  /\ pc = [p \in Procs |-> "idle"]
  /\ body = [p \in Procs |-> NoBody]
  /\ attempts = [p \in Procs |-> 0]
  /\ outcome = [p \in Procs |-> NoOutcome]
  /\ recorded = [e \in Emails |-> 0]
  /\ wpc = [w \in Writers |-> "idle"]
  /\ wreq = [w \in Writers |-> NoWrite]
  /\ wout = [w \in Writers |-> "none"]
  /\ nextId = 1

\* GET /users/mbanking-info: users-controller.getUsers with users-service.getUsers.
\* One listing request is answered per behaviour.
GetUsers(q) ==
  /\ response = NoResponse
  /\ query' = q
  /\ response' = controllerGetUsers(users, q)
  /\ UNCHANGED users
  /\ UNCHANGED <<loginVars, writeVars>>

NextQuery ==
  /\ response = NoResponse
  /\ \E pn \in PageInputs, ps \in SizeInputs, se \in SearchInputs, so \in SortInputs :
       GetUsers([page_number |-> pn, page_size |-> ps, search |-> se, sort |-> so])

\* ========================================================================
\* The requests that write users
\* ========================================================================
\* utils/password hashPassword and passwordMatched: a hash is recognisable as
\* one and matches the password it was made from, and no other.
hashPassword(password) == <<36, 50, 98>> \o password
passwordMatched(password, hashed) == hashed = hashPassword(password)

\* parseFloat: optional white space, an optional sign, then Infinity or the
\* longest decimal literal: digits with an optional point and fraction, or a
\* point and fraction, and an optional exponent that has digits; NaN when
\* there is none.
InfinityText == <<73, 110, 102, 105, 110, 105, 116, 121>>
\* the exponent that d holds behind the unit `stop`: e or E, an optional
\* sign and digits, as <<it is negative, the number its digits write>>; zero
\* when there is none
ExponentAt(d, stop) ==
  LET marked == Len(d) > stop /\ d[stop + 1] \in {101, 69}
      signed == marked /\ Len(d) > stop + 1 /\ d[stop + 2] \in {43, 45}
      from == stop + (IF signed THEN 3 ELSE 2)
  IN IF ~marked THEN <<FALSE, <<>>>>
     ELSE <<signed /\ d[stop + 2] = 45,
            FromDigits(DigitValues(d, from, DigitRun(d, from, 10)))>>
\* the number a is at least the integer n
AtLeast(a, n) == n <= 0 \/ Cmp(a, BigOf(n)) >= 0
\* the digits from the first that is not 0 on
Significant(digits) ==
  LET first == FirstTrue([i \in 1..Len(digits) |-> digits[i] # 0], 1, Len(digits))
  IN IF first = 0 THEN 0 ELSE Len(digits) - first + 1
\* the digits, `fraction` of them behind the point and `sig` of them
\* significant, times ten to the exponent ex: 0 below the least double and
\* Infinity above the greatest, whatever the size of the exponent
FloatScaled(neg, digits, fraction, ex, sig) ==
  IF sig = 0 THEN Num(0)
  ELSE IF ex[1] /\ AtLeast(ex[2], sig - fraction + 325) THEN Num(0)
  ELSE IF ~ex[1] /\ AtLeast(ex[2], 310 - sig + fraction) THEN Infinite(neg)
  ELSE FromDecimal(neg, digits, (IF ex[1] THEN -1 ELSE 1) * IntOf(ex[2]) - fraction)
FloatDigits(neg, digits, fraction, ex) ==
  FloatScaled(neg, digits, fraction, ex, Significant(digits))
\* d holds `whole` digits, then a point and `fraction` digits when point holds
FloatFraction(neg, d, whole, point, fraction) ==
  IF whole + fraction = 0 THEN NaN
  ELSE FloatDigits(neg, DigitValues(d, 1, whole) \o DigitValues(d, whole + 2, fraction),
                   fraction, ExponentAt(d, whole + (IF point THEN 1 + fraction ELSE 0)))
FloatPoint(neg, d, whole, point) ==
  FloatFraction(neg, d, whole, point, IF point THEN DigitRun(d, whole + 2, 10) ELSE 0)
FloatWhole(neg, d, whole) ==
  FloatPoint(neg, d, whole, Len(d) > whole /\ d[whole + 1] = 46)
FloatUnsigned(neg, d) ==
  IF Len(d) >= 8 /\ SubSeq(d, 1, 8) = InfinityText THEN Infinite(neg)
  ELSE FloatWhole(neg, d, DigitRun(d, 1, 10))
FloatSigned(u) ==
  FloatUnsigned(u # <<>> /\ Head(u) = 45,
                IF u # <<>> /\ Head(u) \in {43, 45} THEN Tail(u) ELSE u)
parseFloat(s) == IF s = Absent THEN NaN ELSE FloatSigned(TrimLeft(s))

\* Number.prototype.toString. The digits of a double are the fewest that
\* name it alone; of several such the nearest, of two equally near the even.
\* -1, 0 or 1 as the digits a are below, equal to or above the digits b of
\* the same length.
LexCmp(a, b) ==
  LET i == FirstTrue([j \in 1..Len(a) |-> a[j] # b[j]], 1, Len(a))
  IN IF i = 0 THEN 0 ELSE IF a[i] < b[i] THEN -1 ELSE 1
\* v cut behind its p-th digit, and the next such number above it
CutDown(v, p) == [i \in 1..Len(v) |-> IF i <= p THEN v[i] ELSE 0]
CutUp(v, p) ==
  LET q == LastTrue([i \in 1..Len(v) |-> v[i] # 9], 1, p)
  IN [i \in 1..Len(v) |-> IF i < q THEN v[i] ELSE IF i = q THEN v[i] + 1 ELSE 0]
\* c rounds to the double whose neighbours lie half way at lo and hi
Within(lo, hi, c, closed) ==
  /\ LexCmp(lo, c) < 0 \/ (closed /\ LexCmp(lo, c) = 0)
  /\ LexCmp(c, hi) < 0 \/ (closed /\ LexCmp(c, hi) = 0)
\* -1, 0 or 1 as the digits of v behind the p-th make less than, exactly or
\* more than one half
TailHalf(v, p) ==
  IF p = Len(v) \/ v[p + 1] < 5 THEN -1
  ELSE IF v[p + 1] > 5
            \/ FirstTrue([i \in 1..Len(v) |-> v[i] # 0], p + 2, Len(v)) # 0 THEN 1
  ELSE 0
\* v at the fewest digits at which it, cut down or cut up, rounds to the double
DownFits(v, lo, hi, closed, p) == Within(lo, hi, CutDown(v, p), closed)
UpFits(v, lo, hi, closed, p) == Within(lo, hi, CutUp(v, p), closed)
ShortestCut(v, p, down, up, half) ==
  IF down /\ (~up \/ half < 0 \/ (half = 0 /\ v[p] % 2 = 0))
  THEN CutDown(v, p) ELSE CutUp(v, p)
ShortestAt(v, lo, hi, closed, p) ==
  ShortestCut(v, p, DownFits(v, lo, hi, closed, p), UpFits(v, lo, hi, closed, p),
              TailHalf(v, p))
Shortest(v, lo, hi, closed) ==
  ShortestAt(v, lo, hi, closed,
             FirstTrue([q \in 1..Len(v) |->
                          DownFits(v, lo, hi, closed, q) \/ UpFits(v, lo, hi, closed, q)],
                       1, Len(v)))
PaddedTo(d, n) == [i \in 1..(n - Len(d)) |-> 0] \o d
\* The digits of the double m * 2^e, without zeros at either end, and the
\* number of them before the decimal point: <<digits, n>>. The double and the
\* half-way points to its neighbours are whole multiples of 2^(e - 2).
\* the digits of x * 2^(e - 2), with 2 - e of them decimal places when e < 2
ScaledDigits(x, e) == ToDigits(IF e >= 2 THEN MulPow2(x, e - 2) ELSE MulPow5(x, 2 - e))
ShortestBetween(e, best, first, last) ==
  << [i \in 1..(last - first + 1) |-> best[first + i - 1]],
     Len(best) - first + 1 - (IF e >= 2 THEN 0 ELSE 2 - e) >>
ShortestBest(e, best) ==
  ShortestBetween(e, best,
                  FirstTrue([i \in 1..Len(best) |-> best[i] # 0], 1, Len(best)),
                  LastTrue([i \in 1..Len(best) |-> best[i] # 0], 1, Len(best)))
ShortestBelow(m, e, top) ==
  ShortestBest(e, Shortest(PaddedTo(ScaledDigits(MulSmall(m, 4, 0), e), Len(top) + 1),
                           PaddedTo(ScaledDigits(Sub(MulSmall(m, 4, 0),
                                                     IF m = Two52 /\ e > MinExponent
                                                     THEN <<1>> ELSE <<2>>), e),
                                    Len(top) + 1),
                           PaddedTo(top, Len(top) + 1), m[1] % 2 = 0))
ShortestDigits(m, e) == ShortestBelow(m, e, ScaledDigits(Add(MulSmall(m, 4, 0), <<2>>), e))
RECURSIVE DigitsOf(_)
DigitsOf(n) == IF n < 10 THEN <<48 + n>> ELSE Append(DigitsOf(n \div 10), 48 + (n % 10))
\* the text of the digits s with n of them before the decimal point
Formatted(s, n) ==
  LET k == Len(s)
      text == [i \in 1..k |-> 48 + s[i]]
  IN IF k <= n /\ n <= 21 THEN text \o [i \in 1..(n - k) |-> 48]
     ELSE IF 0 < n /\ n <= 21 THEN SubSeq(text, 1, n) \o <<46>> \o SubSeq(text, n + 1, k)
     ELSE IF -6 < n /\ n <= 0 THEN <<48, 46>> \o [i \in 1..(0 - n) |-> 48] \o text
     ELSE (IF k = 1 THEN text ELSE <<text[1], 46>> \o SubSeq(text, 2, k))
            \o <<101, IF n < 1 THEN 45 ELSE 43>>
            \o DigitsOf(IF n < 1 THEN 1 - n ELSE n - 1)
DoubleText(neg, digits) ==
  (IF neg THEN <<45>> ELSE <<>>) \o Formatted(digits[1], digits[2])
numberToString(x) ==
  IF IsNum(x) THEN (IF x.v < 0 THEN <<45>> \o DigitsOf(0 - x.v) ELSE DigitsOf(x.v))
  ELSE IF IsInfinite(x)
  THEN (IF x.neg THEN <<45>> ELSE <<>>) \o InfinityText
  ELSE IF IsDouble(x) THEN DoubleText(x.neg, ShortestDigits(x.m, x.e))
  ELSE <<78, 97, 78>>

\* users-repository: the queries and writes on the collection.
PositionOf(all, id) ==
  IF \E k \in 1..Len(all) : all[k].id = id
  THEN CHOOSE k \in 1..Len(all) : all[k].id = id ELSE 0
HasUser(all, id) == PositionOf(all, id) # 0
emailIsRegistered(all, email) == \E k \in 1..Len(all) : all[k].email = email
getUAN(all, account_number) ==
  \E k \in 1..Len(all) : all[k].account_number = account_number
repositoryCreateUser(all, id, name, email, phone, account_number, balance, password) ==
  Append(all, [id |-> id, name |-> name, email |-> email, phone |-> phone,
               account_number |-> account_number, balance |-> balance,
               password |-> password])
repositoryUpdateUser(all, id, name, email) ==
  [k \in 1..Len(all) |->
     IF all[k].id = id THEN [all[k] EXCEPT !.name = name, !.email = email]
     ELSE all[k]]
repositoryUpdateBalance(all, id, account_number, amount) ==
  [k \in 1..Len(all) |->
     IF all[k].id = id /\ all[k].account_number = account_number
     THEN [all[k] EXCEPT !.balance = amount] ELSE all[k]]
repositoryDeleteUser(all, id) == SelectSeq(all, LAMBDA u : u.id # id)
repositoryChangePassword(all, id, password) ==
  [k \in 1..Len(all) |->
     IF all[k].id = id THEN [all[k] EXCEPT !.password = password] ELSE all[k]]

\* The stores no two users of which share an email, as they are before any
\* requests overlap.
UniqueStores ==
  { st \in Stores : \A i, j \in 1..Len(st) : st[i].email = st[j].email => i = j }

\* What the requests carry: every request is one of a few.
PhoneInput == <<48, 56, 49>>                \* 081
PasswordInputs == { <<49>>, <<50>> }          \* the password of user 1, of user 2
NewPassword == <<57>>
AmountInputs == { Absent, <<53>>, <<48>>, <<120>> }     \* not a string, 5, 0, x
AccountPrefix == <<53, 51, 53>>
RandomDigits == { <<48>>, <<55>> }            \* Math.floor(Math.random() * 10000000)
AccountInputs == { AccountPrefix \o <<49>>, AccountPrefix \o <<48>> }
ConfirmInputs == { <<89, 101, 115>>, <<78, 111>> }     \* Yes, No

InitUsers ==
  /\ users \in UniqueStores
  /\ query = NoQuery
  /\ response = NoResponse
  /\ wpc = [w \in Writers |-> "idle"]
  /\ wreq = [w \in Writers |-> NoWrite]
  /\ wout = [w \in Writers |-> "none"]
  /\ nextId = Len(users) + 1
  /\ loginAttempts = [e \in Emails |-> None]
  /\ now = 0
  /\ ticks = 0
  /\ pc = [p \in Procs |-> "idle"]
  /\ body = [p \in Procs |-> NoBody]
  /\ attempts = [p \in Procs |-> 0]
  /\ outcome = [p \in Procs |-> NoOutcome]
  /\ recorded = [e \in Emails |-> 0]

\* The request answers (response.status(200) or next(error)) and is over.
Answers(w, answer) ==
  /\ wpc' = [wpc EXCEPT ![w] = "done"]
  /\ wreq' = [wreq EXCEPT ![w] = NoWrite]
  /\ wout' = [wout EXCEPT ![w] = answer]
\* The request goes on to its next await.
GoesOn(w, stage, req) ==
  /\ wpc' = [wpc EXCEPT ![w] = stage]
  /\ wreq' = [wreq EXCEPT ![w] = req]
  /\ UNCHANGED wout
Others == <<query, response, loginVars>>

\* ---------------------------------------------------------------- createUser
\* users-controller.createUser, lines 61-85: the confirmation check and the
\* email check.
CreateUserStart(w, c, balance, password, confirmed) ==
  /\ wpc[w] = "idle"
  /\ IF ~confirmed THEN Answers(w, "INVALID_PASSWORD")
     ELSE IF emailIsRegistered(users, c.email) THEN Answers(w, "EMAIL_ALREADY_TAKEN")
     ELSE GoesOn(w, "account",
                 [NoWrite EXCEPT !.name = c.name, !.email = c.email, !.phone = PhoneInput,
                                 !.balance = IF Truthy(balance) THEN balance ELSE <<48>>,
                                 !.password = password,
                                 !.account_number = AccountPrefix])
  /\ UNCHANGED <<users, nextId, Others>>

\* users-service.generateAccountNumber, one turn of the loop: digits are added
\* to the number so far and the store is asked whether it is taken.
GenerateAccountNumber(w, digits) ==
  /\ wpc[w] = "account"
  /\ LET account_number == wreq[w].account_number \o digits
     IN GoesOn(w, IF getUAN(users, account_number) THEN "account" ELSE "creating",
               [wreq[w] EXCEPT !.account_number = account_number])
  /\ UNCHANGED <<users, nextId, Others>>

\* users-controller.createUser, lines 90-100, with users-service.createUser:
\* the password is hashed and the document written; a write that throws
\* answers UNPROCESSABLE_ENTITY.
CreateUserWrite(w, throws) ==
  /\ wpc[w] = "creating"
  /\ IF throws
     THEN /\ Answers(w, "UNPROCESSABLE_ENTITY")
          /\ UNCHANGED <<users, nextId>>
     ELSE /\ users' = repositoryCreateUser(users, <<48 + nextId>>, wreq[w].name,
                        wreq[w].email, wreq[w].phone, wreq[w].account_number,
                        wreq[w].balance, hashPassword(wreq[w].password))
          /\ nextId' = nextId + 1
          /\ Answers(w, "ok")
  /\ UNCHANGED Others

\* ---------------------------------------------------------------- updateUser
\* users-controller.updateUser, lines 112-125: the email check.
UpdateUserStart(w, id, c) ==
  /\ wpc[w] = "idle"
  /\ IF emailIsRegistered(users, c.email) THEN Answers(w, "EMAIL_ALREADY_TAKEN")
     ELSE GoesOn(w, "updating_get",
                 [NoWrite EXCEPT !.id = id, !.name = c.name, !.email = c.email])
  /\ UNCHANGED <<users, nextId, Others>>

\* users-service.updateUser, lines 202-207: the user is looked up.
UpdateUserGet(w) ==
  /\ wpc[w] = "updating_get"
  /\ IF HasUser(users, wreq[w].id) THEN GoesOn(w, "updating", wreq[w])
     ELSE Answers(w, "UNPROCESSABLE_ENTITY")
  /\ UNCHANGED <<users, nextId, Others>>

\* users-service.updateUser, lines 209-215: the write, which changes nothing
\* when the user is gone by now.
UpdateUserWrite(w, throws) ==
  /\ wpc[w] = "updating"
  /\ IF throws
     THEN /\ Answers(w, "UNPROCESSABLE_ENTITY")
          /\ UNCHANGED users
     ELSE /\ users' = repositoryUpdateUser(users, wreq[w].id, wreq[w].name, wreq[w].email)
          /\ Answers(w, "ok")
  /\ UNCHANGED <<nextId, Others>>

\* ---------------------------------------------------------------- deleteUser
\* users-controller.deleteUser, lines 204-219: the email check.
DeleteUserStart(w, id, email, password, deleteConfirm) ==
  /\ wpc[w] = "idle"
  /\ IF ~emailIsRegistered(users, email) THEN Answers(w, "NOT_FOUND")
     ELSE GoesOn(w, "deleting_check",
                 [NoWrite EXCEPT !.id = id, !.password = password,
                                 !.deleteConfirm = deleteConfirm])
  /\ UNCHANGED <<users, nextId, Others>>

\* lines 221-231 with users-service.checkPassword: user.password of a user
\* that does not exist is a TypeError.
DeleteUserCheck(w) ==
  /\ wpc[w] = "deleting_check"
  /\ LET k == PositionOf(users, wreq[w].id)
     IN IF k = 0 THEN Answers(w, "TypeError")
        ELSE IF ~passwordMatched(wreq[w].password, users[k].password)
        THEN Answers(w, "INVALID_CREDENTIALS")
        ELSE IF wreq[w].deleteConfirm # <<89, 101, 115>> THEN Answers(w, "UNPROCESSABLE_ENTITY")
        ELSE GoesOn(w, "deleting_get", [NoWrite EXCEPT !.id = wreq[w].id])
  /\ UNCHANGED <<users, nextId, Others>>

\* users-service.deleteUser, lines 261-266: the user is looked up.
DeleteUserGet(w) ==
  /\ wpc[w] = "deleting_get"
  /\ IF HasUser(users, wreq[w].id) THEN GoesOn(w, "deleting", wreq[w])
     ELSE Answers(w, "UNPROCESSABLE_ENTITY")
  /\ UNCHANGED <<users, nextId, Others>>

\* users-service.deleteUser, lines 268-272: the document is removed.
DeleteUserWrite(w, throws) ==
  /\ wpc[w] = "deleting"
  /\ IF throws
     THEN /\ Answers(w, "UNPROCESSABLE_ENTITY")
          /\ UNCHANGED users
     ELSE /\ users' = repositoryDeleteUser(users, wreq[w].id)
          /\ Answers(w, "ok")
  /\ UNCHANGED <<nextId, Others>>

\* --------------------------------------------------------------------- topUp
\* users-controller.topUp, lines 148-181: the amount must be a string, the
\* account must exist, the amount must be a positive number.
TopUpStart(w, id, account, amount) ==
  /\ wpc[w] = "idle"
  /\ IF amount = Absent THEN Answers(w, "INVALID_AMOUNT")
     ELSE IF ~getUAN(users, account) THEN Answers(w, "INVALID_CREDENTIALS")
     ELSE IF IsNaN(parseFloat(amount)) \/ LessEq(parseFloat(amount), Num(0))
     THEN Answers(w, "INVALID_CREDENTIALS")
     ELSE GoesOn(w, "topup_get",
                 [NoWrite EXCEPT !.id = id, !.account_number = account,
                                 !.amount = numberToString(parseFloat(amount))])
  /\ UNCHANGED <<users, nextId, Others>>

\* users-service.updateBalance, lines 226-245: the user is looked up, the
\* account compared and the new balance computed from the balance read.
TopUpGet(w) ==
  /\ wpc[w] = "topup_get"
  /\ LET k == PositionOf(users, wreq[w].id)
     IN IF k = 0 THEN Answers(w, "UNPROCESSABLE_ENTITY")
        ELSE IF users[k].account_number # wreq[w].account_number
        THEN Answers(w, "UNPROCESSABLE_ENTITY")
        ELSE GoesOn(w, "topup",
                    [wreq[w] EXCEPT !.balance =
                       numberToString(Plus(parseFloat(users[k].balance),
                                           parseFloat(wreq[w].amount)))])
  /\ UNCHANGED <<users, nextId, Others>>

\* users-service.updateBalance, lines 247-252: the new balance is written.
TopUpWrite(w, throws) ==
  /\ wpc[w] = "topup"
  /\ IF throws
     THEN /\ Answers(w, "UNPROCESSABLE_ENTITY")
          /\ UNCHANGED users
     ELSE /\ users' = repositoryUpdateBalance(users, wreq[w].id, wreq[w].account_number,
                                              wreq[w].balance)
          /\ Answers(w, "ok")
  /\ UNCHANGED <<nextId, Others>>

\* ------------------------------------------------------------ changePassword
\* users-controller.changePassword, lines 255-273: the confirmation check and
\* the check of the old password.
ChangePasswordStart(w, id, password_old, password_new, confirmed) ==
  /\ wpc[w] = "idle"
  /\ LET k == PositionOf(users, id)
     IN IF ~confirmed THEN Answers(w, "INVALID_PASSWORD")
        ELSE IF k = 0 THEN Answers(w, "TypeError")
        ELSE IF ~passwordMatched(password_old, users[k].password)
        THEN Answers(w, "INVALID_CREDENTIALS")
        ELSE GoesOn(w, "password_get", [NoWrite EXCEPT !.id = id, !.password = password_new])
  /\ UNCHANGED <<users, nextId, Others>>

\* users-service.changePassword, lines 338-343: the user is looked up.
ChangePasswordGet(w) ==
  /\ wpc[w] = "password_get"
  /\ IF HasUser(users, wreq[w].id) THEN GoesOn(w, "password", wreq[w])
     ELSE Answers(w, "UNPROCESSABLE_ENTITY")
  /\ UNCHANGED <<users, nextId, Others>>

\* users-service.changePassword, lines 345-356: the new password is hashed and
\* written; a write that throws is not caught by the service.
ChangePasswordWrite(w, throws) ==
  /\ wpc[w] = "password"
  /\ IF throws
     THEN /\ Answers(w, "StoreError")
          /\ UNCHANGED users
     ELSE /\ users' = repositoryChangePassword(users, wreq[w].id,
                                               hashPassword(wreq[w].password))
          /\ Answers(w, "ok")
  /\ UNCHANGED <<nextId, Others>>

NextUsers ==
  \/ \E w \in Writers, c \in Candidates, balance \in {Absent, <<53>>},
        password \in PasswordInputs, confirmed \in BOOLEAN :
       CreateUserStart(w, c, balance, password, confirmed)
  \/ \E w \in Writers, digits \in RandomDigits : GenerateAccountNumber(w, digits)
  \/ \E w \in Writers, throws \in BOOLEAN : CreateUserWrite(w, throws)
  \/ \E w \in Writers, id \in UserIds, c \in Candidates : UpdateUserStart(w, id, c)
  \/ \E w \in Writers : UpdateUserGet(w)
  \/ \E w \in Writers, throws \in BOOLEAN : UpdateUserWrite(w, throws)
  \/ \E w \in Writers, id \in UserIds, c \in Candidates, password \in PasswordInputs,
        deleteConfirm \in ConfirmInputs :
       DeleteUserStart(w, id, c.email, password, deleteConfirm)
  \/ \E w \in Writers : DeleteUserCheck(w)
  \/ \E w \in Writers : DeleteUserGet(w)
  \/ \E w \in Writers, throws \in BOOLEAN : DeleteUserWrite(w, throws)
  \/ \E w \in Writers, id \in UserIds, account \in AccountInputs, amount \in AmountInputs :
       TopUpStart(w, id, account, amount)
  \/ \E w \in Writers : TopUpGet(w)
  \/ \E w \in Writers, throws \in BOOLEAN : TopUpWrite(w, throws)
  \/ \E w \in Writers, id \in UserIds, password_old \in PasswordInputs, confirmed \in BOOLEAN :
       ChangePasswordStart(w, id, password_old, NewPassword, confirmed)
  \/ \E w \in Writers : ChangePasswordGet(w)
  \/ \E w \in Writers, throws \in BOOLEAN : ChangePasswordWrite(w, throws)

\* ========================================================================
\* Specifications
\* ========================================================================
Init ==
  /\ InitLogin
  /\ users = <<>>
  /\ query = NoQuery
  /\ response = NoResponse
  /\ wpc = [w \in Writers |-> "idle"]
  /\ wreq = [w \in Writers |-> NoWrite]
  /\ wout = [w \in Writers |-> "none"]
  /\ nextId = 1
Next == NextLogin
Spec == Init /\ [][Next]_vars

SpecQuery == InitQuery /\ [][NextQuery]_vars

SpecUsers == InitUsers /\ [][NextUsers]_vars

\* ========================================================================
\* Properties of the login throttle
\* ========================================================================
WindowMs == WindowSeconds * MsPerSecond
HasRecord(e) == loginAttempts[e] # None
InsideWindow(e) == now - loginAttempts[e].timestamp < WindowMs
\* Request p, arriving in this step for identity e, is rejected at line 40.
RejectedLocked(p, e) ==
  /\ pc'[p] = "idle"
  /\ outcome'[p].kind = "locked"
  /\ outcome'[p].email = e
\* Request p, arriving in this step for identity e, reaches the credential check.
ReachesCheck(p, e) ==
  /\ pc'[p] = "checking"
  /\ body'[p].email = e
  /\ outcome'[p].kind # "locked"

\* C1: a login attempt that starts while the identity's failureCount exceeds 5
\* and less than 1800 seconds after the record's timestamp is rejected as
\* Locked and never reaches the credential check.
C1_LockedInsideWindow ==
  [][\A p \in Procs, e \in Emails, pw \in Passwords :
       (HasRecord(e) /\ loginAttempts[e].count > 5 /\ InsideWindow(e)
          /\ LoginStart(p, e, pw))
       => (RejectedLocked(p, e) /\ pc'[p] # "checking")]_vars

C1_Witness ==
  \E p \in Procs :
    /\ outcome[p].kind = "locked"
    /\ outcome[p].elapsed < WindowMs
    /\ pc[p] = "idle"
    /\ loginAttempts[outcome[p].email].count > 5

\* C2 (as claimed): a login attempt that starts 1800 seconds or more after the
\* last recorded failure of an identity whose failureCount exceeds 5 is not
\* rejected as Locked but reaches the credential check.
C2_UnlockedAfterWindow ==
  [][\A p \in Procs, e \in Emails, pw \in Passwords :
       (HasRecord(e) /\ loginAttempts[e].count > 5 /\ ~InsideWindow(e)
          /\ LoginStart(p, e, pw))
       => ReachesCheck(p, e)]_vars

\* C3: a login attempt that starts while the identity has no record or a
\* failureCount of at most 5 is never rejected as Locked: it reaches the
\* credential check, and a missing record is created with failureCount = 1.
C3_AllowedUpToLimit ==
  [][\A p \in Procs, e \in Emails, pw \in Passwords :
       ((~HasRecord(e) \/ loginAttempts[e].count <= 5) /\ LoginStart(p, e, pw))
       => /\ ReachesCheck(p, e)
          /\ ~HasRecord(e) => loginAttempts'[e].count = 1]_vars

C3_Witness ==
  /\ \E p \in Procs : pc[p] = "checking" /\ attempts[p] = 5
  /\ \E p \in Procs : pc[p] = "checking" /\ attempts[p] = 1

\* C4 (as claimed): once 6 failures have been recorded for an identity with no
\* success in between, an attempt that starts within 1800 seconds of the last
\* of them is rejected as Locked with secondsRemaining > 0.
C4_LockedAfterSixFailures ==
  [][\A p \in Procs, e \in Emails, pw \in Passwords :
       (HasRecord(e) /\ recorded[e] >= AttemptLimit + 1 /\ InsideWindow(e)
          /\ LoginStart(p, e, pw))
       => (RejectedLocked(p, e) /\ outcome'[p].remaining > 0)]_vars

\* C5 (as claimed): every recorded failure is reflected in failureCount: a
\* record created with count 1 that has since had n failures written to it
\* holds count 1 + n.
C5_NoLostIncrement ==
  \A e \in Emails : HasRecord(e) => loginAttempts[e].count = 1 + recorded[e]

\* C6: a successful authentication removes the identity's record whatever its
\* count was, and an attempt that starts with no record (as after a success)
\* creates the record with failureCount = 1 and reaches the credential check.
C6_SuccessResets ==
  [][/\ \A p \in Procs :
          (pc[p] = "checking" /\ checkLoginCredentials(body[p].email, body[p].password)
             /\ LoginResume(p))
          => (loginAttempts'[body[p].email] = None /\ outcome'[p].kind = "ok")
     /\ \A p \in Procs, e \in Emails, pw \in Passwords :
          (~HasRecord(e) /\ (\E q \in Procs : outcome[q].kind = "ok" /\ outcome[q].email = e)
             /\ LoginStart(p, e, pw))
          => /\ loginAttempts'[e] = [count |-> 1, timestamp |-> now]
             /\ attempts'[p] = 1
             /\ ReachesCheck(p, e)]_vars

C6_Witness ==
  \E p, q \in Procs :
    /\ outcome[q].kind = "ok"
    /\ pc[p] = "checking"
    /\ body[p].email = outcome[q].email
    /\ attempts[p] = 1
    /\ loginAttempts[body[p].email].count = 1

\* Two Locked answers for the same identity.
BothLocked(p, q) ==
  /\ outcome[p].kind = "locked"
  /\ outcome[q].kind = "locked"
  /\ outcome[p].email = outcome[q].email

\* C7 (as claimed): secondsRemaining is never negative, is 0 from 1800 seconds
\* after the last failure on, and while it is positive it is strictly smaller
\* for a check made any later after the last failure.
C7_StrictlyDecreasing ==
  /\ \A p \in Procs : outcome[p].kind = "locked" =>
       /\ outcome[p].remaining >= 0
       /\ outcome[p].elapsed >= WindowMs => outcome[p].remaining = 0
  /\ \A p, q \in Procs :
       (BothLocked(p, q) /\ outcome[p].elapsed < outcome[q].elapsed
          /\ outcome[p].remaining > 0)
       => outcome[q].remaining < outcome[p].remaining

\* C7 (amended): secondsRemaining is 1800 minus the whole seconds elapsed
\* since the last failure, cut off at 0: never negative, 0 from 1800 seconds
\* on and positive before, never larger for a later check, and strictly
\* smaller for a check at least one full second later while it is positive.
C7_WholeSecondsDecreasing ==
  /\ \A p \in Procs : outcome[p].kind = "locked" =>
       /\ outcome[p].remaining >= 0
       /\ outcome[p].elapsed >= WindowMs => outcome[p].remaining = 0
       /\ outcome[p].elapsed < WindowMs =>
            /\ outcome[p].remaining > 0
            /\ outcome[p].remaining * MsPerSecond >= WindowMs - outcome[p].elapsed
            /\ outcome[p].remaining * MsPerSecond
                 < WindowMs - outcome[p].elapsed + MsPerSecond
  /\ \A p, q \in Procs :
       (BothLocked(p, q) /\ outcome[p].elapsed <= outcome[q].elapsed)
       => /\ outcome[q].remaining <= outcome[p].remaining
          /\ (outcome[q].elapsed - outcome[p].elapsed >= MsPerSecond
                /\ outcome[p].remaining > 0)
               => outcome[q].remaining < outcome[p].remaining

C7_Witness ==
  \E p, q \in Procs :
    /\ BothLocked(p, q)
    /\ outcome[p].elapsed = 0
    /\ outcome[q].elapsed >= MsPerSecond
    /\ outcome[p].remaining = WindowSeconds
    /\ outcome[q].remaining < outcome[p].remaining
    /\ outcome[q].remaining > 0

\* ========================================================================
\* Properties of the user query engine
\* ========================================================================
\* What the claims mean by their words, stated without the engine's operators.
\* The part of t between its first and its last character that is not white
\* space.
Stripped(t) ==
  LET ns == { i \in 1..Len(t) : t[i] \notin WhiteSpace }
  IN IF ns = {} THEN <<>>
     ELSE SubSeq(t, CHOOSE i \in ns : \A j \in ns : i <= j,
                    CHOOSE i \in ns : \A j \in ns : i >= j)
ColonsOf(s) == { i \in 1..Len(s) : s[i] = 58 }
\* s reads field:value (or field:direction): exactly one colon.
WellFormed(s) == s # Absent /\ Cardinality(ColonsOf(s)) = 1
LeftOf(s) == Stripped(SubSeq(s, 1, (CHOOSE i \in ColonsOf(s) : TRUE) - 1))
RightOf(s) == Stripped(SubSeq(s, (CHOOSE i \in ColonsOf(s) : TRUE) + 1, Len(s)))
\* The string attributes of a user record, by name.
Attributes(u) ==
  { <<<<105, 100>>, u.id>>, <<<<110, 97, 109, 101>>, u.name>>, <<<<101, 109, 97, 105, 108>>, u.email>>,
    <<<<112, 97, 115, 115, 119, 111, 114, 100>>, u.password>>, <<<<98, 97, 108, 97, 110, 99, 101>>, u.balance>>,
    <<<<112, 104, 111, 110, 101>>, u.phone>>, <<<<97, 99, 99, 111, 117, 110, 116, 95, 110, 117, 109, 98, 101, 114>>, u.account_number>> }
IsAttribute(f) == \E a \in Attributes(Document([name |-> <<>>, email |-> <<>>], 0)) : a[1] = f
AttributeOf(u, f) == (CHOOSE a \in Attributes(u) : a[1] = f)[2]
\* v occurs in s, character for character.
Contains(s, v) ==
  \E a \in 1..(Len(s) + 1) : \E b \in (a - 1)..Len(s) : SubSeq(s, a, b) = v
\* s with its capital letters replaced by small ones; the small form of a
\* capital sigma is the final sigma at the end of a word, the sigma elsewhere.
Folded(s) ==
  [i \in 1..Len(s) |->
     IF s[i] \in (65..90) \cup ((192..222) \ {215}) THEN s[i] + 32
     ELSE IF s[i] = 931 THEN (IF i > 1 /\ i = Len(s) THEN 962 ELSE 963)
     ELSE s[i]]
\* a comes before b in the dictionary order of the code units.
Before(a, b) ==
  \E k \in 1..(Len(a) + 1) :
    /\ k <= Len(b)
    /\ \A i \in 1..(k - 1) : a[i] = b[i]
    /\ k = Len(a) + 1 \/ a[k] < b[k]
\* A page or page size parameter that is one of the digits 1-9, and its value.
IsPositive(s) == Len(s) = 1 /\ s[1] \in 49..57
ValueOf(s) == s[1] - 48
\* The answer the same store gives to the same request asked with other
\* parameters.
AnswerTo(q) == controllerGetUsers(users, q)
OnOnePage(q) == [q EXCEPT !.page_number = Absent, !.page_size = Absent]
Unsorted(q) == [q EXCEPT !.sort = Absent]
Answered == response # NoResponse
Listed == Answered /\ response.status = 200
Ids(data) == { data[i].id : i \in 1..Len(data) }
PositionIn(data, id) == CHOOSE k \in 1..Len(data) : data[k].id = id

\* The store positions a well-formed search keeps.
MatchedBy(s) ==
  { k \in 1..Len(users) : Contains(AttributeOf(users[k], LeftOf(s)), RightOf(s)) }

\* C8: with a well-formed search on an attribute, the records listed are
\* exactly those whose attribute contains the value (case-sensitively), in
\* store order, and count is the number that matched whatever page and
\* page_size are.
C8_SearchKeepsMatches ==
  (Answered /\ WellFormed(query.search) /\ IsAttribute(LeftOf(query.search)))
  => LET matched == MatchedBy(query.search)
         whole == AnswerTo(OnOnePage(Unsorted(query)))
     IN /\ (matched # {}) = (whole.status = 200)
        /\ Listed =>
             /\ response.body.count = Cardinality(matched)
             /\ Ids(response.body.data) \subseteq { users[k].id : k \in matched }
        /\ whole.status = 200 =>
             /\ Len(whole.body.data) = Cardinality(matched)
             /\ Ids(whole.body.data) = { users[k].id : k \in matched }
             /\ \A i, j \in 1..Len(whole.body.data) :
                  i < j => \E k, l \in matched :
                             /\ k < l
                             /\ whole.body.data[i] = Summary(users[k])
                             /\ whole.body.data[j] = Summary(users[l])
        /\ (Listed /\ query.sort = Absent /\ query.page_number = Absent
              /\ query.page_size = Absent) => response = whole

C8_Witness ==
  /\ Listed
  /\ WellFormed(query.search)
  /\ query.sort = Absent /\ query.page_size = Absent /\ query.page_number = Absent
  /\ Len(users) = 3
  /\ response.body.count = 2
  /\ Len(response.body.data) = 2
  /\ response.body.data[1].id = users[1].id
  /\ response.body.data[2].id = users[3].id

\* The sort key and direction a well-formed sort names.
KeyField(s) ==
  IF Folded(LeftOf(s)) \in {<<110, 97, 109, 101>>, <<101, 109, 97, 105, 108>>} THEN Folded(LeftOf(s)) ELSE <<101, 109, 97, 105, 108>>
Descending(s) == Folded(RightOf(s)) = <<100, 101, 115, 99>>
KeyOf(item, s) == Folded(IF KeyField(s) = <<110, 97, 109, 101>> THEN item.name ELSE item.email)

\* C9: with a well-formed sort, the records listed are the filtered records
\* rearranged: never out of order by the case-insensitive sort key (name or
\* email as named, email for any other name; descending for desc, ascending
\* otherwise), with equal keys in their order before the sort.
C9_SortOrdersByKey ==
  (Listed /\ WellFormed(query.sort))
  => LET data == response.body.data
         s == query.sort
         before == AnswerTo(OnOnePage(Unsorted(query))).body.data
         whole == AnswerTo(OnOnePage(query)).body.data
     IN /\ Len(whole) = Len(before)
        /\ Ids(whole) = Ids(before)
        /\ \A i \in 1..Len(whole) : whole[i] = before[PositionIn(before, whole[i].id)]
        /\ Ids(data) \subseteq Ids(whole)
        /\ \A i, j \in 1..Len(data) :
             i < j =>
               /\ PositionIn(whole, data[i].id) < PositionIn(whole, data[j].id)
               /\ IF Descending(s)
                  THEN ~Before(KeyOf(data[i], s), KeyOf(data[j], s))
                  ELSE ~Before(KeyOf(data[j], s), KeyOf(data[i], s))
               /\ KeyOf(data[i], s) = KeyOf(data[j], s)
                    => PositionIn(before, data[i].id) < PositionIn(before, data[j].id)

C9_Witness ==
  /\ Listed
  /\ WellFormed(query.sort)
  /\ Descending(query.sort)
  /\ KeyField(query.sort) = <<110, 97, 109, 101>>
  /\ Len(response.body.data) = 3
  /\ response.body.data[3].name = <<74, 111>>
  /\ response.body.data[1].id = users[1].id
  /\ response.body.data[2].id = users[3].id
  /\ users[1].name = users[3].name

\* The page and page size of a request that names a positive page size and a
\* page of at least 1 (1 when it names none).
PagedRequest(q) ==
  /\ IsPositive(q.page_size)
  /\ q.page_number = Absent \/ IsPositive(q.page_number)
PageNumber(q) == IF q.page_number = Absent THEN 1 ELSE ValueOf(q.page_number)
PageSize(q) == ValueOf(q.page_size)

\* C10: for a page >= 1 and a positive page size, data is the part of the
\* filtered and sorted list at indices [(page-1)*size, page*size), cut at the
\* end of the list; total_pages is the least number of pages of that size
\* that hold count records; has_previous_page is page > 1 and has_next_page is
\* page < total_pages; a page past the last is empty with the same totals.
C10_PageSlice ==
  (Answered /\ PagedRequest(query))
  => LET p == PageNumber(query)
         n == PageSize(query)
         whole == AnswerTo(OnOnePage(query))
     IN /\ response.status = whole.status
        /\ Listed =>
             LET all == whole.body.data
                 r == response.body
             IN /\ r.page_number = Num(p)
                /\ r.page_size = Num(n)
                /\ r.count = Len(all)
                /\ Len(r.data) = Max(0, Min(p * n, Len(all)) - (p - 1) * n)
                /\ \A k \in 1..Len(r.data) : r.data[k] = all[(p - 1) * n + k]
                /\ IsNum(r.total_pages)
                /\ r.total_pages.v * n >= r.count
                /\ (r.total_pages.v - 1) * n < r.count
                /\ r.has_previous_page = (p > 1)
                /\ r.has_next_page = (p < r.total_pages.v)
                /\ p > r.total_pages.v => r.data = <<>>

C10_Witness ==
  /\ Listed
  /\ PagedRequest(query)
  /\ PageNumber(query) = 2
  /\ PageSize(query) = 2
  /\ response.body.count = 3
  /\ Len(response.body.data) = 1
  /\ response.body.total_pages = Num(2)
  /\ response.body.has_previous_page
  /\ ~response.body.has_next_page
\* The request names page 1, or no page.
FirstPage(q) == q.page_number = Absent \/ q.page_number = <<49>>

\* C11 (as claimed): the page size answered is the requested one when that is
\* a positive integer and the filtered count otherwise (absent, zero,
\* negative, not a number), and then page 1 of a non-empty list holds every
\* filtered record, with total_pages = 1 and has_previous_page false.
C11_EffectivePageSize ==
  Listed =>
    LET r == response.body
    IN /\ IsPositive(query.page_size) => r.page_size = Num(ValueOf(query.page_size))
       /\ ~IsPositive(query.page_size) =>
            /\ r.page_size = Num(r.count)
            /\ (FirstPage(query) /\ r.count > 0) =>
                 /\ Len(r.data) = r.count
                 /\ r.total_pages = Num(1)
                 /\ ~r.has_previous_page

\* C12 (as claimed): over an empty store a request without a search, whatever
\* its page and page size, is answered with count 0, total_pages 0 and no
\* items.
C12_EmptyStore ==
  (Answered /\ users = <<>> /\ query.search = Absent)
  => /\ Listed
     /\ response.body.count = 0
     /\ response.body.total_pages = Num(0)
     /\ response.body.data = <<>>

\* C13 (as claimed): a well-formed search on an attribute that matches no
\* record is answered not-found, and one that matches at least one record is
\* never answered not-found but with a result, whatever the page.
C13_NoResultsOnlyWhenNoMatch ==
  (Answered /\ WellFormed(query.search) /\ IsAttribute(LeftOf(query.search)))
  => /\ MatchedBy(query.search) = {} => response.status = 404
     /\ MatchedBy(query.search) # {} => Listed

\* A search or sort that does not read field:value.
Malformed(s) == s # Absent /\ Cardinality(ColonsOf(s)) # 1
Unfiltered(q) == [q EXCEPT !.search = Absent]

\* C14: a search that does not split into exactly two parts is answered like
\* the request without the search, a sort that does not like the request
\* without the sort; with neither a search nor a sort in effect the first and
\* only page lists every user in store order.
C14_MalformedIgnored ==
  Answered =>
    /\ Malformed(query.search) => response = AnswerTo(Unfiltered(query))
    /\ Malformed(query.sort) => response = AnswerTo(Unsorted(query))
    /\ ((Malformed(query.search) \/ query.search = Absent)
          /\ (Malformed(query.sort) \/ query.sort = Absent)
          /\ FirstPage(query) /\ query.page_size = Absent)
       => /\ Listed
          /\ response.body.count = Len(users)
          /\ Len(response.body.data) = Len(users)
          /\ \A k \in 1..Len(users) : response.body.data[k].id = users[k].id

C14_Witness ==
  /\ Listed
  /\ Malformed(query.search)
  /\ Cardinality(ColonsOf(query.search)) = 2
  /\ Malformed(query.sort)
  /\ FirstPage(query) /\ query.page_size = Absent
  /\ Len(users) = 3
  /\ Len(response.body.data) = 3
  /\ users[1].name # users[2].name

\* C15: every item listed has exactly the fields id, name, balance, email,
\* phone and account_number, with the values of one user record, and no
\* password.
C15_ProjectionOnly ==
  Listed =>
    \A i \in 1..Len(response.body.data) :
      LET item == response.body.data[i]
      IN /\ DOMAIN item = {"id", "name", "balance", "email", "phone", "account_number"}
         /\ \E k \in 1..Len(users) :
              /\ item.id = users[k].id
              /\ item.name = users[k].name
              /\ item.balance = users[k].balance
              /\ item.email = users[k].email
              /\ item.phone = users[k].phone
              /\ item.account_number = users[k].account_number

C15_Witness ==
  /\ Listed
  /\ Len(response.body.data) = 2
  /\ query.search # Absent
  /\ query.sort # Absent
  /\ query.page_size # Absent

\* C18: a well-formed search on a name that is no attribute of the records is
\* answered not-found for every store, sort, page and page size.
C18_UnknownFieldNotFound ==
  (Answered /\ WellFormed(query.search) /\ ~IsAttribute(LeftOf(query.search)))
  => response.status = 404

C18_Witness ==
  /\ Answered
  /\ WellFormed(query.search)
  /\ ~IsAttribute(LeftOf(query.search))
  /\ Len(users) = 2
  /\ query.sort # Absent
  /\ response.status = 404
\* A request of p for e comes back from the credential check on this step.
Returns(p, e) == pc[p] = "checking" /\ pc'[p] = "idle" /\ body[p].email = e

\* C16 (as claimed): every attempt that passed the throttle check and then
\* failed the credential check leaves the identity's failureCount one higher
\* than it was and windowStart at the time of the failure.
C16_FailureAddsOne ==
  [][\A p \in Procs, e \in Emails :
       (Returns(p, e) /\ outcome'[p].kind \in {"wrong", "typeerror"})
       => /\ loginAttempts'[e].count = loginAttempts[e].count + 1
          /\ loginAttempts'[e].timestamp = now]_vars

\* C17: a record at hand changes only when a request for its identity comes
\* back from the credential check, and is removed only when that request
\* succeeded; a step of the clock and a Locked rejection leave it as it was.
C17_RemovedOnlyBySuccess ==
  [][/\ \A e \in Emails :
          (HasRecord(e) /\ loginAttempts'[e] # loginAttempts[e])
          => \E p \in Procs :
               /\ Returns(p, e)
               /\ loginAttempts'[e] = None => outcome'[p].kind = "ok"
     /\ now' # now => loginAttempts' = loginAttempts
     /\ \A p \in Procs :
          (outcome'[p] # outcome[p] /\ outcome'[p].kind = "locked")
          => loginAttempts' = loginAttempts]_vars

C17_Witness ==
  \E p \in Procs, e \in Emails :
    /\ outcome[p].kind = "locked"
    /\ outcome[p].email = e
    /\ outcome[p].elapsed >= WindowMs
    /\ HasRecord(e)
    /\ loginAttempts[e].count = AttemptLimit + 1
    /\ loginAttempts[e].timestamp = now - outcome[p].elapsed

\* Credential checks with a wrong password for e since its record was
\* created: those that wrote their failure and those still under way.
WrongChecks(e) ==
  recorded[e]
  + Cardinality({ p \in Procs : pc[p] = "checking" /\ body[p].email = e
                                  /\ body[p].password # "good" })

\* C20 (as claimed): since the last success of an identity, or the start, and
\* while its window is open, the credential check has been invoked with a
\* wrong password at most 5 times, however the requests overlap.
C20_AtMostFiveWrongChecks ==
  \A e \in Emails :
    (HasRecord(e) /\ InsideWindow(e)) => WrongChecks(e) <= AttemptLimit

\* C19 (as claimed): whatever createUser and updateUser requests ran, and
\* however they overlapped, no two stored users have the same email.
C19_EmailUnique ==
  \A i, j \in 1..Len(users) : users[i].email = users[j].email => i = j
\* C21 (as claimed): every attempt whose credential check fails is answered
\* 'Wrong email or password' and leaves a record for its identity that counts
\* the failure, also when another attempt for the identity succeeded and
\* removed the record in the meantime.
C21_FailureAlwaysRecorded ==
  [][\A p \in Procs, e \in Emails :
       (Returns(p, e) /\ body[p].password # "good")
       => /\ outcome'[p].kind = "wrong"
          /\ loginAttempts'[e] # None
          /\ loginAttempts'[e].count >= 2]_vars

\* The items of page k of the request at hand, and pages 1..n one after
\* another.
PageAt(k) == AnswerTo([query EXCEPT !.page_number = NumStr(k)]).body.data
RECURSIVE Joined(_, _)
Joined(pages, n) == IF n = 0 THEN <<>> ELSE Joined(pages, n - 1) \o pages[n]

\* C22: for a positive page size (seen from the answer to page 1, which names
\* total_pages) the pages 1..total_pages, one after another,
\* are the whole filtered and sorted list; every record of the list is on
\* exactly one page, no page has more than page_size items and none of the
\* pages 1..total_pages is empty.
C22_PagesPartition ==
  (Listed /\ IsPositive(query.page_size) /\ FirstPage(query))
  => LET T == response.body.total_pages
         whole == AnswerTo(OnOnePage(query)).body.data
         pages == [k \in 1..(IF IsNum(T) /\ T.v >= 0 THEN T.v ELSE 0) |-> PageAt(k)]
     IN /\ IsNum(T)
        /\ T.v >= 0
        /\ Joined(pages, T.v) = whole
        /\ Len(whole) = response.body.count
        /\ \A i \in 1..Len(whole) :
             Cardinality({ k \in 1..T.v : whole[i].id \in Ids(pages[k]) }) = 1
        /\ \A k \in 1..T.v :
             /\ Len(pages[k]) >= 1
             /\ Len(pages[k]) <= ValueOf(query.page_size)

C22_Witness ==
  /\ Listed
  /\ FirstPage(query)
  /\ query.page_size = <<50>>
  /\ query.search # Absent
  /\ query.sort # Absent
  /\ response.body.count = 3
  /\ response.body.total_pages = Num(2)
  /\ Len(PageAt(1)) = 2
  /\ Len(PageAt(2)) = 1
====
